---- MODULE Spec2Model ----
(***************************************************************************)
(* Recurrence expansion and notification queue of Reminders-by-Location.   *)
(*                                                                         *)
(* Time.  A Date is modelled as an integer number of SECONDS of local time *)
(* counted from 00:00:00 of a Monday (day 0).  The sub-second part of a    *)
(* Date behaves exactly as its seconds do in every operation modelled here *)
(* (it is carried by addMinutes, dropped by setHours(0,0,0,0) and by       *)
(* setSeconds(0,0), ignored by getHours/getMinutes), so it is folded into  *)
(* the seconds.  The local zone has a fixed offset: every calendar day is  *)
(* 86400 seconds long.                                                     *)
(***************************************************************************)
EXTENDS Integers, Sequences, FiniteSets, TLC

\* ------------------------------------------------------------------------
\* Bounds of the model
\* ------------------------------------------------------------------------
MaxCountBound == 3
MaxHorizonDays == 2

\* ------------------------------------------------------------------------
\* Calendar arithmetic on Dates
\* ------------------------------------------------------------------------
SecondsPerMinute == 60
MinutesPerDay == 24 * 60
SecondsPerDay == MinutesPerDay * SecondsPerMinute
SecondsPerHour == 60 * SecondsPerMinute

Min(a, b) == IF a < b THEN a ELSE b
Max(a, b) == IF a > b THEN a ELSE b

\* JavaScript's % : the remainder takes the sign of the dividend.
JsRem(a, b) == IF a >= 0 THEN a % b ELSE -((-a) % b)

\* Date.prototype.getDay(): 0 = Sunday, 1 = Monday, ... 6 = Saturday.
getDay(date) == ((date \div SecondsPerDay) + 1) % 7

MIN_INTERVAL == 5
MAX_INTERVAL == 180
DEFAULT_DAYS == <<TRUE, TRUE, TRUE, TRUE, TRUE, TRUE, TRUE>>
DEFAULT_MAX_COUNT == 50
DEFAULT_HORIZON_HOURS == 24

\* A missing optional field of an input object: `input.f ?? d`.
OrDefault(obj, field, default) ==
    IF field \in DOMAIN obj THEN obj[field] ELSE default

\* Variant: a mask of the wrong length is kept as it is.
normalizeDaysOfWeek_keep(value) == value

normalizeDaysOfWeek(value) ==
    IF Len(value) # 7 THEN DEFAULT_DAYS ELSE value

\* Variant: the native Sunday-first getDay() index is used on the Monday-first mask.
isDayActive_sundayFirst(date, daysOfWeek) ==
    daysOfWeek[getDay(date) + 1]

isDayActive(date, daysOfWeek) ==
    LET day == getDay(date)
        index == IF day = 0 THEN 6 ELSE day - 1
    IN  daysOfWeek[index + 1]

\* Number values that are not finite are stood for by three integers beyond
\* every finite number the model computes with.
Infinity == 2 ^ 30
NegativeInfinity == -Infinity
NaN == Infinity + 1

\* Number.isFinite(value)
isFinite(value) == value \notin {NaN, Infinity, NegativeInfinity}

normalizeMinutes_unguarded(value) ==
    LET normalized == JsRem(value, MinutesPerDay)
    IN  IF normalized < 0 THEN normalized + MinutesPerDay ELSE normalized

normalizeMinutes(value) ==
    IF ~isFinite(value) THEN 0
    ELSE LET normalized == JsRem(value, MinutesPerDay)
         IN  IF normalized < 0 THEN normalized + MinutesPerDay ELSE normalized

clamp_unguarded(value, min, max) == Min(max, Max(min, value))

clamp(value, min, max) ==
    IF ~isFinite(value) THEN min ELSE Min(max, Max(min, value))

startOfDay(date) == (date \div SecondsPerDay) * SecondsPerDay

dateAtMinutes(date, minutes) == startOfDay(date) + minutes * SecondsPerMinute

addMinutes(date, minutes) == date + minutes * SecondsPerMinute

addDays(date, days) == date + days * SecondsPerDay

minutesSinceMidnight(date) == (date % SecondsPerDay) \div SecondsPerMinute

isWithinWindow(date, startMinutes, endMinutes, spansMidnight) ==
    LET timeMinutes == minutesSinceMidnight(date)
    IN  IF ~spansMidnight
        THEN timeMinutes >= startMinutes /\ timeMinutes < endMinutes
        ELSE timeMinutes >= startMinutes \/ timeMinutes < endMinutes

\* Variant: the start of today's window is returned also once it has passed.
nextWindowStart_sameDay(date, startMinutes, endMinutes, spansMidnight) ==
    dateAtMinutes(date, startMinutes)

nextWindowStart(date, startMinutes, endMinutes, spansMidnight) ==
    LET timeMinutes == minutesSinceMidnight(date)
        todayStart == dateAtMinutes(date, startMinutes)
    IN  IF ~spansMidnight
        THEN IF timeMinutes < startMinutes THEN todayStart ELSE addDays(todayStart, 1)
        ELSE IF timeMinutes >= endMinutes /\ timeMinutes < startMinutes
             THEN todayStart
             ELSE addDays(todayStart, 1)

\* Variant: the end of the window is always taken on the following day.
windowFor_endNextDay(date, startMinutes, endMinutes, spansMidnight) ==
    LET timeMinutes == minutesSinceMidnight(date)
        todayStart == dateAtMinutes(date, startMinutes)
    IN  IF ~spansMidnight \/ timeMinutes >= startMinutes
        THEN [start |-> todayStart,
              end |-> dateAtMinutes(addDays(todayStart, 1), endMinutes)]
        ELSE [start |-> dateAtMinutes(addDays(todayStart, -1), startMinutes),
              end |-> dateAtMinutes(date, endMinutes)]

windowFor(date, startMinutes, endMinutes, spansMidnight) ==
    LET timeMinutes == minutesSinceMidnight(date)
        todayStart == dateAtMinutes(date, startMinutes)
    IN  IF ~spansMidnight
        THEN [start |-> todayStart, end |-> dateAtMinutes(date, endMinutes)]
        ELSE IF timeMinutes >= startMinutes
             THEN [start |-> todayStart,
                   end |-> dateAtMinutes(addDays(todayStart, 1), endMinutes)]
             ELSE [start |-> dateAtMinutes(addDays(todayStart, -1), startMinutes),
                   end |-> dateAtMinutes(date, endMinutes)]

alignToInterval(windowStart, cursor, intervalMinutes) ==
    LET diffMinutes == Max(0, (cursor - windowStart) \div SecondsPerMinute)
        remainder == diffMinutes % intervalMinutes
        delta == IF remainder = 0 THEN 0 ELSE intervalMinutes - remainder
    IN  addMinutes(cursor, delta)

\* cursor.setSeconds(0, 0)
setSecondsZero(date) == (date \div SecondsPerMinute) * SecondsPerMinute

horizonOf(now, horizonHours) == now + horizonHours * SecondsPerHour

\* ------------------------------------------------------------------------
\* Loops.  A `while` loop is modelled by its body (one iteration, a function
\* from loop state to loop state), its condition, and a driver that repeats
\* the body while the condition holds.  The driver splits the iteration
\* budget in halves so that evaluation depth stays logarithmic; the budget
\* LoopBudget(c) is at least the number of iterations any of the loops can
\* make (every iteration moves the cursor forward by at least one interval,
\* and each loop stops once the cursor has passed the horizon).
\* ------------------------------------------------------------------------
LoopBudget(c) == (Max(0, c.horizon - c.now) \div (c.interval * SecondsPerMinute)) + 2

\* ------------------------------------------------------------------------
\* generateFallbackDates (scheduler.ts)
\* ------------------------------------------------------------------------
fallbackContinues(st, c) == Len(st.results) < c.maxCount /\ st.cursor <= c.horizon

\* Variant: the cursor is left where it is.
fallbackBody_cursorKept(st, c) ==
    [cursor |-> st.cursor,
     results |-> IF (c.allDay \/ isWithinWindow(st.cursor, c.startMinutes, c.endMinutes,
                                                c.spansMidnight))
                    /\ isDayActive(st.cursor, c.activeDays)
                 THEN Append(st.results, st.cursor)
                 ELSE st.results]

\* One iteration of the while loop of generateFallbackDates.
fallbackBody(st, c) ==
    [cursor |-> addMinutes(st.cursor, c.interval),
     results |-> IF (c.allDay \/ isWithinWindow(st.cursor, c.startMinutes, c.endMinutes,
                                                c.spansMidnight))
                    /\ isDayActive(st.cursor, c.activeDays)
                 THEN Append(st.results, st.cursor)
                 ELSE st.results]

RECURSIVE FallbackWalk(_, _, _)
FallbackWalk(st, c, budget) ==
    IF ~fallbackContinues(st, c) THEN st
    ELSE IF budget <= 1 THEN fallbackBody(st, c)
    ELSE FallbackWalk(FallbackWalk(st, c, budget \div 2), c, budget - (budget \div 2))

\* Variant: the seconds of the first fallback instant are not cleared.
fallbackStart_keepSeconds(now, intervalMinutes) == addMinutes(now, intervalMinutes)

fallbackStart(now, intervalMinutes) == setSecondsZero(addMinutes(now, intervalMinutes))

generateFallbackDates(input) ==
    LET c == [now |-> input.now,
              interval |-> input.intervalMinutes,
              startMinutes |-> input.startMinutes,
              endMinutes |-> input.endMinutes,
              activeDays |-> input.daysOfWeek,
              maxCount |-> input.maxCount,
              horizon |-> horizonOf(input.now, input.horizonHours),
              allDay |-> input.startMinutes = input.endMinutes,
              spansMidnight |-> input.endMinutes < input.startMinutes]
        first == [cursor |-> fallbackStart(input.now, input.intervalMinutes),
                  results |-> <<>>]
    IN  FallbackWalk(first, c, LoopBudget(c)).results

\* ------------------------------------------------------------------------
\* generateFireDates (scheduler.ts)
\* ------------------------------------------------------------------------
\* The inner while loop over one window; st = [candidate, results].
\* Variant: the inner loop does not look at maxCount.
ticksContinue_noCap(st, windowEnd, c) ==
    /\ st.candidate < windowEnd
    /\ st.candidate <= c.horizon

ticksContinue(st, windowEnd, c) ==
    /\ st.candidate < windowEnd
    /\ st.candidate <= c.horizon
    /\ Len(st.results) < c.maxCount

ticksBody(st, c) ==
    [candidate |-> addMinutes(st.candidate, c.interval),
     results |-> IF st.candidate > c.now /\ isDayActive(st.candidate, c.activeDays)
                 THEN Append(st.results, st.candidate)
                 ELSE st.results]

RECURSIVE WindowTicks(_, _, _, _)
WindowTicks(st, windowEnd, c, budget) ==
    IF ~ticksContinue(st, windowEnd, c) THEN st
    ELSE IF budget <= 1 THEN ticksBody(st, c)
    ELSE WindowTicks(WindowTicks(st, windowEnd, c, budget \div 2),
                     windowEnd, c, budget - (budget \div 2))

\* Variant: a candidate equal to `now` is not moved to the next tick.
allDayCandidate_noBump(cursor, c) ==
    alignToInterval(startOfDay(cursor), cursor, c.interval)

\* The candidate of one iteration of the all-day branch.
allDayCandidate(cursor, c) ==
    LET windowStart == startOfDay(cursor)
        candidate == alignToInterval(windowStart, cursor, c.interval)
    IN  IF candidate <= c.now THEN addMinutes(candidate, c.interval) ELSE candidate

\* The cursor after the `if (!isWithinWindow(...))` step of the window branch.
enterWindow(cursor, c) ==
    IF ~isWithinWindow(cursor, c.startMinutes, c.endMinutes, c.spansMidnight)
    THEN nextWindowStart(cursor, c.startMinutes, c.endMinutes, c.spansMidnight)
    ELSE cursor

\* The outer while loop; st = [cursor, results, stop], stop = a `break` was taken.
\* Variant: the outer loop runs while results.length <= maxCount.
primaryContinues_offByOne(st, c) ==
    ~st.stop /\ Len(st.results) <= c.maxCount /\ st.cursor <= c.horizon

primaryContinues(st, c) ==
    ~st.stop /\ Len(st.results) < c.maxCount /\ st.cursor <= c.horizon

\* One iteration of the outer while loop of generateFireDates.
primaryBody(st, c) ==
    IF c.allDay
    THEN LET candidate == allDayCandidate(st.cursor, c)
         IN  IF candidate > c.horizon
             THEN [st EXCEPT !.stop = TRUE]
             ELSE [cursor |-> addMinutes(candidate, c.interval),
                   results |-> IF isDayActive(candidate, c.activeDays)
                               THEN Append(st.results, candidate)
                               ELSE st.results,
                   stop |-> FALSE]
    ELSE LET inside == enterWindow(st.cursor, c)
         IN  IF inside > c.horizon
                /\ ~isWithinWindow(st.cursor, c.startMinutes, c.endMinutes, c.spansMidnight)
             THEN [st EXCEPT !.stop = TRUE]
             ELSE LET window == windowFor(inside, c.startMinutes, c.endMinutes,
                                          c.spansMidnight)
                      candidate == alignToInterval(window.start, inside, c.interval)
                      ticks == WindowTicks([candidate |-> candidate, results |-> st.results],
                                           window.end, c, LoopBudget(c))
                  IN  [cursor |-> addMinutes(window.end, 1),
                       results |-> ticks.results,
                       stop |-> FALSE]

RECURSIVE PrimaryWalk(_, _, _)
PrimaryWalk(st, c, budget) ==
    IF ~primaryContinues(st, c) THEN st
    ELSE IF budget <= 1 THEN primaryBody(st, c)
    ELSE PrimaryWalk(PrimaryWalk(st, c, budget \div 2), c, budget - (budget \div 2))

\* The locals of generateFireDates computed before its loop.
walkContext(input) ==
    LET startMinutes == normalizeMinutes(input.startMinutesFromMidnight)
        endMinutes == normalizeMinutes(input.endMinutesFromMidnight)
        horizonHours == OrDefault(input, "horizonHours", DEFAULT_HORIZON_HOURS)
    IN  [now |-> input.now,
         interval |-> clamp(input.intervalMinutes, MIN_INTERVAL, MAX_INTERVAL),
         startMinutes |-> startMinutes,
         endMinutes |-> endMinutes,
         maxCount |-> OrDefault(input, "maxCount", DEFAULT_MAX_COUNT),
         horizonHours |-> horizonHours,
         activeDays |-> normalizeDaysOfWeek(OrDefault(input, "daysOfWeek", <<>>)),
         horizon |-> horizonOf(input.now, horizonHours),
         allDay |-> startMinutes = endMinutes,
         spansMidnight |-> endMinutes < startMinutes]

\* The loop of lines 97-131 run from `cursor = new Date(now)`, `results = []`.
primaryWalkFrom(c) ==
    PrimaryWalk([cursor |-> c.now, results |-> <<>>, stop |-> FALSE], c, LoopBudget(c))

\* The results collected by the primary window-walk (the loop of lines 97-131).
primaryResults(input) ==
    LET c == walkContext(input)
    IN  primaryWalkFrom(c).results

someDayActive(activeDays) == \E i \in 1..Len(activeDays) : activeDays[i]

generateFireDates(input) ==
    LET c == walkContext(input)
    IN  IF ~someDayActive(c.activeDays)
        THEN <<>>
        ELSE LET results == primaryWalkFrom(c).results
             IN  IF Len(results) = 0
                 THEN generateFallbackDates(
                         [now |-> c.now,
                          intervalMinutes |-> c.interval,
                          startMinutes |-> c.startMinutes,
                          endMinutes |-> c.endMinutes,
                          daysOfWeek |-> c.activeDays,
                          maxCount |-> c.maxCount,
                          horizonHours |-> c.horizonHours])
                 ELSE results

\* ------------------------------------------------------------------------
\* Inputs of the expansion
\* ------------------------------------------------------------------------
AllDays == DEFAULT_DAYS
MonOnly == <<TRUE, FALSE, FALSE, FALSE, FALSE, FALSE, FALSE>>
TueOnly == <<FALSE, TRUE, FALSE, FALSE, FALSE, FALSE, FALSE>>
WeekEnd == <<FALSE, FALSE, FALSE, FALSE, FALSE, TRUE, TRUE>>
NoDays == <<FALSE, FALSE, FALSE, FALSE, FALSE, FALSE, FALSE>>

\* intervalMinutes as passed in: 3 and 200 lie outside [MIN_INTERVAL, MAX_INTERVAL].
IntervalInputs == {3, 30, 60, 100, 200}

\* <<startMinutesFromMidnight, endMinutesFromMidnight>> as passed in.
WindowInputs ==
    { <<9 * 60, 21 * 60>>,        \* 09:00-21:00
      <<9 * 60, 9 * 60>>,         \* start = end = 09:00
      <<0, 0>>,                   \* start = end = 00:00
      <<21 * 60, 6 * 60>>,        \* 21:00-06:00, crosses midnight
      <<23 * 60, 30>>,            \* 23:00-00:30, crosses midnight
      <<-3 * 60, 30 * 60>> }      \* not normalized: 21:00-06:00

MaskInputs == {AllDays, MonOnly, TueOnly, WeekEnd, NoDays, <<>>}

TimeOfDay(h, m, s) == h * SecondsPerHour + m * SecondsPerMinute + s

NowTimes ==
    { TimeOfDay(8, 0, 0), TimeOfDay(9, 0, 30), TimeOfDay(9, 30, 0),
      TimeOfDay(21, 10, 30), TimeOfDay(23, 0, 0), TimeOfDay(2, 10, 0) }

\* Day 0 is a Monday, day 6 a Sunday.
NowDays == {0, 6}

NowInputs == { d * SecondsPerDay + t : d \in NowDays, t \in NowTimes }

HorizonInputs == {2} \cup { 24 * d : d \in 1..MaxHorizonDays }

MaxCountInputs == 0..MaxCountBound

\* More than any expansion over the longest horizon can hold.
NoCap == MaxHorizonDays * MinutesPerDay + 1

RuleInputs ==
    { [intervalMinutes |-> i,
       startMinutesFromMidnight |-> w[1],
       endMinutesFromMidnight |-> w[2],
       daysOfWeek |-> m] : i \in IntervalInputs, w \in WindowInputs, m \in MaskInputs }

\* Rules with a number that is not finite: as the interval (over a window that
\* is not normalized), as the start or the end of the window.
NonFiniteRules ==
    { [intervalMinutes |-> i,
       startMinutesFromMidnight |-> -3 * 60,
       endMinutesFromMidnight |-> 30 * 60,
       daysOfWeek |-> AllDays] : i \in {NaN, Infinity, NegativeInfinity} }
    \cup
    { [intervalMinutes |-> 60,
       startMinutesFromMidnight |-> w[1],
       endMinutesFromMidnight |-> w[2],
       daysOfWeek |-> AllDays] :
        w \in { <<NaN, 21 * 60>>, <<9 * 60, Infinity>>, <<NegativeInfinity, NaN>> } }

withField(rec, field, value) ==
    [f \in DOMAIN rec \cup {field} |-> IF f = field THEN value ELSE rec[f]]

\* ScheduleInput objects: maxCount is given, or absent (`?? 50`).  The
\* shortest interval is expanded over the short horizon only.
ScheduleInputs ==
    LET base == { b \in { withField(withField(r, "now", n), "horizonHours", h) :
                              r \in RuleInputs \cup NonFiniteRules,
                              n \in NowInputs, h \in HorizonInputs } :
                    \/ b.horizonHours = 2
                    \/ isFinite(b.intervalMinutes) /\ b.intervalMinutes >= MIN_INTERVAL }
    IN  base \cup { withField(b, "maxCount", k) : b \in base, k \in MaxCountInputs }

\* ------------------------------------------------------------------------
\* buildNotificationQueue (scheduler.ts)
\* ------------------------------------------------------------------------
\* The ScheduledNotification entries pushed for one schedule.
\* Variant: the entries do not carry the message of their schedule.
entriesOf_noMessage(schedule, dates) ==
    [i \in 1..Len(dates) |->
        [scheduleId |-> schedule.id, date |-> dates[i], message |-> ""]]

entriesOf(schedule, dates) ==
    [i \in 1..Len(dates) |->
        [scheduleId |-> schedule.id, date |-> dates[i], message |-> schedule.message]]

\* The `for (const schedule of input.schedules)` loop: combined after the
\* schedules 1..n have been expanded.
RECURSIVE combinedUpTo(_, _, _, _, _)
combinedUpTo(schedules, n, now, maxCount, horizonHours) ==
    IF n = 0 THEN <<>>
    ELSE combinedUpTo(schedules, n - 1, now, maxCount, horizonHours)
         \o entriesOf(schedules[n],
                      generateFireDates(
                        [now |-> now,
                         intervalMinutes |-> schedules[n].intervalMinutes,
                         startMinutesFromMidnight |-> schedules[n].startMinutesFromMidnight,
                         endMinutesFromMidnight |-> schedules[n].endMinutesFromMidnight,
                         daysOfWeek |-> schedules[n].daysOfWeek,
                         maxCount |-> maxCount,
                         horizonHours |-> horizonHours]))

\* Variant: entries with equal dates come out in reverse input order.
sortByDate_tiesReversed(combined) ==
    LET n == Len(combined)
        rank == [i \in 1..n |->
                    1 + Cardinality({ j \in 1..n :
                        \/ combined[j].date < combined[i].date
                        \/ combined[j].date = combined[i].date /\ j > i })]
    IN  [k \in 1..n |-> combined[CHOOSE i \in 1..n : rank[i] = k]]

\* Array.prototype.sort with the comparator a.date - b.date: a stable sort.
\* Entry i of the input lands at position rank(i).
sortByDate(combined) ==
    LET n == Len(combined)
        rank == [i \in 1..n |->
                    1 + Cardinality({ j \in 1..n :
                        \/ combined[j].date < combined[i].date
                        \/ combined[j].date = combined[i].date /\ j < i })]
    IN  [k \in 1..n |-> combined[CHOOSE i \in 1..n : rank[i] = k]]

\* Array.prototype.slice(0, count) for count >= 0.
sliceTo(seq, count) == SubSeq(seq, 1, Min(Len(seq), count))

\* Variant: the combined list is cut to maxCount before it is sorted.
buildNotificationQueue_cutUnsorted(qin) ==
    LET maxCount == OrDefault(qin, "maxCount", DEFAULT_MAX_COUNT)
        horizonHours == OrDefault(qin, "horizonHours", DEFAULT_HORIZON_HOURS)
        combined == combinedUpTo(qin.schedules, Len(qin.schedules), qin.now,
                                 maxCount, horizonHours)
    IN  sortByDate(sliceTo(combined, maxCount))

buildNotificationQueue(qin) ==
    LET maxCount == OrDefault(qin, "maxCount", DEFAULT_MAX_COUNT)
        horizonHours == OrDefault(qin, "horizonHours", DEFAULT_HORIZON_HOURS)
        combined == combinedUpTo(qin.schedules, Len(qin.schedules), qin.now,
                                 maxCount, horizonHours)
    IN  sliceTo(sortByDate(combined), maxCount)

\* ------------------------------------------------------------------------
\* buildQueue (notifications.ts) and createSchedule (App.tsx)
\* ------------------------------------------------------------------------
QUEUE_HORIZON_HOURS == 24 * 7

\* schedule -> ScheduleRule
ruleOf(schedule) ==
    [id |-> schedule.id,
     intervalMinutes |-> schedule.intervalMinutes,
     startMinutesFromMidnight |-> schedule.startMinutesFromMidnight,
     endMinutesFromMidnight |-> schedule.endMinutesFromMidnight,
     message |-> schedule.message,
     daysOfWeek |-> schedule.daysOfWeek]

\* `clockNow` stands for the `new Date()` read when options.now is absent.
buildQueue(targetSchedules, opts, clockNow) ==
    buildNotificationQueue(
        [now |-> OrDefault(opts, "now", clockNow),
         schedules |-> [i \in 1..Len(targetSchedules) |-> ruleOf(targetSchedules[i])],
         maxCount |-> OrDefault(opts, "maxCount", DEFAULT_MAX_COUNT),
         horizonHours |-> OrDefault(opts, "horizonHours", QUEUE_HORIZON_HOURS)])

\* getWeeklyDefaultDays(): only today's Monday-first index is set.
getWeeklyDefaultDays(today) ==
    LET jsDay == getDay(today)
        index == IF jsDay = 0 THEN 6 ELSE jsDay - 1
    IN  [dayIndex \in 1..7 |-> dayIndex - 1 = index]

\* Date.getDate(): day 0 of the time line is Monday 1 January 2024; the time
\* line is used up to the end of April 2024.
getDate(date) ==
    LET day == date \div SecondsPerDay
    IN  IF day < 31 THEN day + 1
        ELSE IF day < 60 THEN day - 30
        ELSE IF day < 91 THEN day - 59
        ELSE day - 90

\* clampDayOfMonth on a finite whole number.
clampDayOfMonth(value) ==
    IF value < 1 THEN 1 ELSE IF value > 31 THEN 31 ELSE value

\* normalizeDayOfMonth() without an argument: today's day of the month.
normalizeDayOfMonth(today) == clampDayOfMonth(getDate(today))

\* getScheduleType(schedule.type): an absent type is 'withinDay'.
getScheduleType(schedule) == OrDefault(schedule, "type", "withinDay")

\* createSchedule(name, type): the id is supplied by the caller, `today` is
\* the clock read by getWeeklyDefaultDays and normalizeDayOfMonth.  Only a
\* monthly schedule has a dayOfMonth.
createSchedule(id, type, today) ==
    LET startMinutes == 9 * 60
        endMinutes == IF type = "withinDay" THEN 21 * 60 ELSE startMinutes
        schedule ==
            [id |-> id,
             type |-> type,
             intervalMinutes |-> 30,
             startMinutesFromMidnight |-> startMinutes,
             endMinutesFromMidnight |-> endMinutes,
             daysOfWeek |-> IF type = "weekly" THEN getWeeklyDefaultDays(today)
                            ELSE DEFAULT_DAYS,
             message |-> "",
             isActive |-> FALSE]
    IN  IF type = "monthly"
        THEN withField(schedule, "dayOfMonth", normalizeDayOfMonth(today))
        ELSE schedule

\* ------------------------------------------------------------------------
\* filterQuietHours (notifications.ts)
\* ------------------------------------------------------------------------
DEFAULT_QUIET_HOURS ==
    [enabled |-> FALSE,
     startMinutesFromMidnight |-> 22 * 60,
     endMinutesFromMidnight |-> 7 * 60]

getHours(date) == (date % SecondsPerDay) \div SecondsPerHour
getMinutes(date) == (date % SecondsPerHour) \div SecondsPerMinute

\* Variant: for a span over midnight an entry is kept when it is before the
\* start or at/after the end.
quietKeeps_eitherSide(item, startMinutes, endMinutes, spansMidnight) ==
    LET minutes == getHours(item.date) * 60 + getMinutes(item.date)
    IN  minutes < startMinutes \/ minutes >= endMinutes

\* The callback of queue.filter: TRUE when the entry is kept.
quietKeeps(item, startMinutes, endMinutes, spansMidnight) ==
    LET minutes == getHours(item.date) * 60 + getMinutes(item.date)
    IN  IF ~spansMidnight
        THEN minutes < startMinutes \/ minutes >= endMinutes
        ELSE minutes < startMinutes /\ minutes >= endMinutes

\* An absent quietHours argument is the empty record.
filterQuietHours(queue, quietHours) ==
    IF ~OrDefault(quietHours, "enabled", FALSE)
    THEN queue
    ELSE LET startMinutes == quietHours.startMinutesFromMidnight
             endMinutes == quietHours.endMinutesFromMidnight
         IN  IF startMinutes = endMinutes
             THEN queue
             ELSE LET spansMidnight == endMinutes < startMinutes
                  IN  SelectSeq(queue,
                                LAMBDA item : quietKeeps(item, startMinutes, endMinutes,
                                                         spansMidnight))

\* ------------------------------------------------------------------------
\* scheduleBatch and cancelScheduleNotifications (notifications.ts): the
\* values they compute.  Their steps are the actions further down.
\* ------------------------------------------------------------------------
DEFAULT_MESSAGE == "Don't forget!"

\* Variant: the request carries no schedule id.
notificationRequest_untagged(item) ==
    [scheduleId |-> "",
     date |-> item.date,
     body |-> IF item.message = "" THEN DEFAULT_MESSAGE ELSE item.message]

\* The request handed to scheduleNotificationAsync, reduced to content.body,
\* content.data.scheduleId and trigger.date.  The messages of the model have
\* no surrounding blanks, so trim() leaves them as they are.
notificationRequest(item) ==
    [scheduleId |-> item.scheduleId,
     date |-> item.date,
     body |-> IF item.message = "" THEN DEFAULT_MESSAGE ELSE item.message]

\* Variant: the default text is reported whatever the error.
formatError_generic(error) == "Please try again."

\* An error is [isError, message]: `error instanceof Error` and its message.
formatError(error) ==
    IF error.isError /\ error.message # ""
    THEN error.message
    ELSE "Please try again."

\* Variant: every pending registration is a match.
matchesOf_all(scheduled, scheduleId) == scheduled

\* scheduled.filter(...) in cancelScheduleNotifications.
matchesOf(scheduled, scheduleId) ==
    SelectSeq(scheduled, LAMBDA item : item.scheduleId = scheduleId)

\* Variant: the activation returns at once, cancelling nothing.
cancelTask_skipped(scheduleId) ==
    [scheduleId |-> scheduleId, state |-> "done", matches |-> <<>>, next |-> 1]

\* One activation of cancelScheduleNotifications(scheduleId): waiting for
\* getAllScheduledNotificationsAsync ("getAll"), then cancelling matches[next]
\* ("cancel"), then returned ("done") or rejected ("failed").
cancelTask(scheduleId) ==
    [scheduleId |-> scheduleId, state |-> "getAll", matches |-> <<>>, next |-> 1]

\* Variant: a queue of one entry is taken for empty as well.
queueIsEmpty_orSingle(queue) == Len(queue) <= 1

\* `queue.length === 0` in scheduleBatch.
queueIsEmpty(queue) == Len(queue) = 0

\* scheduleIfEligible: the horizon handed to scheduleBatch.
eligibleHorizonHours(schedule) ==
    IF getScheduleType(schedule) = "monthly" THEN 24 * 90 ELSE 24 * 7

\* ------------------------------------------------------------------------
\* expo-notifications: the pending registrations after a call that succeeded
\* ------------------------------------------------------------------------
afterSchedule(registrations, identifier, request) ==
    Append(registrations, withField(request, "identifier", identifier))

afterCancel(registrations, identifier) ==
    SelectSeq(registrations, LAMBDA item : item.identifier # identifier)

\* ------------------------------------------------------------------------
\* Inputs of the queue builder
\* ------------------------------------------------------------------------
MaxSchedules == 2

QueueClocks ==
    { TimeOfDay(8, 0, 0), TimeOfDay(21, 10, 30), 6 * SecondsPerDay + TimeOfDay(23, 0, 0) }

\* A schedule as the user may have left it: a fresh one of some type, or an
\* edited one (interval, window, days, message).
ScheduleTemplates(id) ==
    { createSchedule(id, "withinDay", 0),
      createSchedule(id, "daily", 0),
      [createSchedule(id, "withinDay", 0) EXCEPT
          !.intervalMinutes = 60,
          !.startMinutesFromMidnight = 21 * 60,
          !.endMinutesFromMidnight = 6 * 60,
          !.daysOfWeek = MonOnly,
          !.message = "stretch"] }

ScheduleIds == <<"s1", "s2", "s3", "s4">>

\* Lists of at most MaxSchedules schedules with pairwise distinct ids.
RECURSIVE ScheduleLists(_)
ScheduleLists(n) ==
    IF n = 0 THEN { <<>> }
    ELSE ScheduleLists(n - 1)
         \cup { Append(l, t) : l \in { x \in ScheduleLists(n - 1) : Len(x) = n - 1 },
                               t \in ScheduleTemplates(ScheduleIds[n]) }

\* The options of buildQueue: none (the dispatch pipeline: 50 entries over a
\* week), or maxCount given with horizonHours absent (a week) or one day.
QueueOptions ==
    { <<>> } \cup { withField(o, "maxCount", k) :
                      o \in { <<>>, [horizonHours |-> 24] }, k \in MaxCountInputs }

\* ------------------------------------------------------------------------
\* Inputs of the quiet-hours filter
\* ------------------------------------------------------------------------
MaxQueueLen == 2

\* Fire times around the ends of the quiet spans below, one of them with
\* seconds, one on the next day.
FilterInstants ==
    { TimeOfDay(6, 59, 0), TimeOfDay(7, 0, 0), TimeOfDay(21, 59, 30),
      TimeOfDay(22, 0, 0), TimeOfDay(22, 30, 0), TimeOfDay(23, 0, 0),
      SecondsPerDay + TimeOfDay(0, 0, 0) }

\* Queues as buildQueue returns them: sorted by date.
FilterQueues ==
    UNION { { q \in [1..n -> { [scheduleId |-> "s1", date |-> t, message |-> ""] :
                                  t \in FilterInstants }] :
                \A k \in 1..(n - 1) : q[k].date <= q[k + 1].date } : n \in 0..MaxQueueLen }

QuietHoursInputs ==
    { DEFAULT_QUIET_HOURS,
      [DEFAULT_QUIET_HOURS EXCEPT !.enabled = TRUE],
      [enabled |-> TRUE, startMinutesFromMidnight |-> 22 * 60,
       endMinutesFromMidnight |-> 23 * 60],
      [enabled |-> TRUE, startMinutesFromMidnight |-> 7 * 60,
       endMinutesFromMidnight |-> 22 * 60],
      [enabled |-> TRUE, startMinutesFromMidnight |-> 22 * 60,
       endMinutesFromMidnight |-> 22 * 60] }

\* The QuietHoursOptions argument: quietHours absent or given.
QuietHoursOptions ==
    { <<>> } \cup { [quietHours |-> q] : q \in QuietHoursInputs }

\* ------------------------------------------------------------------------
\* Inputs of the dispatch adapter
\* ------------------------------------------------------------------------
MaxRegistrations == 3

DispatchClocks == { TimeOfDay(8, 0, 0), TimeOfDay(21, 10, 30) }

WithinDay(id) == createSchedule(id, "withinDay", 0)
Daily(id) == createSchedule(id, "daily", 0)
Evening(id) ==
    [createSchedule(id, "withinDay", 0) EXCEPT
        !.intervalMinutes = 60,
        !.startMinutesFromMidnight = 21 * 60,
        !.endMinutesFromMidnight = 6 * 60,
        !.daysOfWeek = MonOnly,
        !.message = "stretch"]

\* The first argument of scheduleBatch: the active schedules of a region.
DispatchBatches ==
    { <<>>,
      <<WithinDay("s1")>>, <<Daily("s1")>>, <<Evening("s1")>>,
      <<WithinDay("s1"), Daily("s2")>>,
      <<Evening("s1"), Daily("s2")>>,
      <<Daily("s1"), Daily("s2"), Daily("s3")>>,
      <<Evening("s1"), WithinDay("s2"), Daily("s3")>> }

NightQuiet == [DEFAULT_QUIET_HOURS EXCEPT !.enabled = TRUE]
DayQuiet ==
    [enabled |-> TRUE, startMinutesFromMidnight |-> 7 * 60,
     endMinutesFromMidnight |-> 22 * 60]

\* The second argument of scheduleBatch: a cap without quiet hours, or the
\* largest cap with quiet hours.
DispatchOptions ==
    LET caps == { [maxCount |-> k, horizonHours |-> 24] : k \in 0..MaxRegistrations }
    IN  caps \cup { withField([maxCount |-> MaxRegistrations, horizonHours |-> 24],
                              "quietHours", q) : q \in { NightQuiet, DayQuiet } }

\* The schedule handed to scheduleIfEligible: a monthly one set to the 15th,
\* or a fresh within-day one.
EligibleSchedules ==
    { [createSchedule("s1", "monthly", 0) EXCEPT !.dayOfMonth = 15],
      WithinDay("s1") }

EligibleClocks == { TimeOfDay(8, 0, 0) }

\* Registrations pending before the call: of the schedule "s1" and of a
\* schedule "s9" that is in no batch.
PendingInputs ==
    { <<>>,
      << [identifier |-> 1, scheduleId |-> "s1", date |-> TimeOfDay(9, 0, 0),
          body |-> DEFAULT_MESSAGE],
         [identifier |-> 2, scheduleId |-> "s9", date |-> TimeOfDay(9, 0, 0),
          body |-> DEFAULT_MESSAGE],
         [identifier |-> 3, scheduleId |-> "s1", date |-> TimeOfDay(9, 30, 0),
          body |-> DEFAULT_MESSAGE] >> }

\* What a rejected notifier call throws.
ErrorInputs ==
    { [isError |-> TRUE, message |-> "quota exceeded"],
      [isError |-> TRUE, message |-> ""],
      [isError |-> FALSE, message |-> "denied"] }

CancelIds == { "s1", "s2", "s9" }

\* ------------------------------------------------------------------------
\* State
\* ------------------------------------------------------------------------
VARIABLES
    pc,               \* the call about to be made; "expanded" / "queued" after it returned
    input,            \* generateFireDates: the ScheduleInput handed to it
    dates,            \* generateFireDates: the Date[] it returned
    walk,             \* generateFireDates: the locals of the loop it is in
                      \* (cursor, results), <<>> outside a loop
    targetSchedules,  \* buildQueue: its first argument
    options,          \* buildQueue: its second argument
    clock,            \* buildQueue: the current time, read as `new Date()`
    queue,            \* buildQueue: the ScheduledNotification[] it returned;
                      \* filterQuietHours: its first argument
    filtered,         \* filterQuietHours: the queue it returned
    entry,            \* dispatch: the function called and its argument
    quietHours,       \* App: the quietHours state read by scheduleIfEligible
    pending,          \* notifier: the pending registrations, oldest first
    nextIdentifier,   \* notifier: the identifier of the next registration
    scheduled,        \* scheduleBatch: its counter `scheduled`
    error,            \* scheduleBatch: the error caught from a registration
    tasks,            \* the activations of cancelScheduleNotifications
    calls,            \* notifier: the calls answered so far, in order
    result,           \* dispatch: the value returned
    repeat,           \* caller: how many times it has called the dispatch function
    snapshot,         \* caller: the registrations pending when its first call returned,
                      \* geofence task: the registrations pending when it started
    event,            \* geofence task: the body ({ data, error }) it is run with
    settings,         \* what loadSettings() resolved to (geofence task; the saved
                      \* places and radius of the App with location gating)
    schedules,        \* App: the schedules state
    draftSchedule,    \* App: the draft of the detail sheet, <<>> for null
    detailMode,       \* App: 'add', 'edit' or null
    isHydrated,       \* App: the isHydrated state
    storage,          \* AsyncStorage: the parsed settings item, <<>> when there is none
    authorizationStatus,  \* App: 'authorized', 'denied' or 'unknown'
    previousSchedules,    \* App: previousSchedulesRef.current
    timers,           \* App: rescheduleTimers.current, id -> what the callback closes over
    passes,           \* App: the activations of onStartSchedule, rescheduleSchedule,
                      \* onStopSchedule and removeSchedule awaiting a call
    budget,           \* the user events that set App state, so far
    failures,         \* the notifier calls rejected so far
    removedIds,       \* the ids removeSchedule has been invoked with
    edits,            \* the edits made to the open draft
    lastOutcome,      \* the activation that returned last, and how
    sheet             \* App with location gating: the action sheet openLocationPicker
                      \* shows (the schedule id and the places it lists), <<>> for none

pureVars == <<input, dates, filtered, walk>>
dispatchVars ==
    <<entry, quietHours, pending, nextIdentifier, scheduled, error, tasks, calls, result>>
callerVars == <<repeat, snapshot, event, settings>>
vars ==
    <<pc, input, dates, walk, targetSchedules, options, clock, queue, filtered,
      entry, quietHours, pending, nextIdentifier, scheduled, error, tasks, calls, result,
      repeat, snapshot, event, settings,
      schedules, draftSchedule, detailMode, isHydrated, storage, authorizationStatus,
      previousSchedules, timers, passes, budget, failures, removedIds, edits,
      lastOutcome, sheet>>

appVars ==
    <<schedules, draftSchedule, detailMode, isHydrated, storage, authorizationStatus,
      previousSchedules, timers, passes, budget, failures, removedIds, edits,
      lastOutcome, sheet>>

\* An empty rescheduleTimers map.
NoTimers == [id \in {} |-> <<>>]

\* The App is not mounted.
NoApp ==
    /\ schedules = <<>>
    /\ draftSchedule = <<>>
    /\ detailMode = "null"
    /\ isHydrated = FALSE
    /\ storage = <<>>
    /\ authorizationStatus = "unknown"
    /\ previousSchedules = <<>>
    /\ timers = NoTimers
    /\ passes = <<>>
    /\ budget = 0
    /\ failures = 0
    /\ removedIds = {}
    /\ edits = 0
    /\ lastOutcome = <<>>
    /\ sheet = <<>>

\* One call by a caller that is not the geofence task.
SingleCall ==
    /\ repeat = 1
    /\ snapshot = <<>>
    /\ event = <<>>
    /\ settings = <<>>

\* No dispatch call is under way.
DispatchIdle ==
    /\ entry = <<>>
    /\ quietHours = DEFAULT_QUIET_HOURS
    /\ pending = <<>>
    /\ nextIdentifier = 1
    /\ scheduled = 0
    /\ error = <<>>
    /\ tasks = <<>>
    /\ calls = <<>>
    /\ result = <<>>

Init ==
    /\ dates = <<>>
    /\ walk = <<>>
    /\ filtered = <<>>
    /\ DispatchIdle
    /\ SingleCall
    /\ NoApp
    /\ \/ /\ pc = "generateFireDates"
          /\ input \in ScheduleInputs
          /\ targetSchedules = <<>>
          /\ options = <<>>
          /\ clock = 0
          /\ queue = <<>>
       \/ /\ pc = "buildQueue"
          /\ input = <<>>
          /\ targetSchedules \in ScheduleLists(MaxSchedules)
          /\ options \in QueueOptions
          /\ clock \in QueueClocks
          /\ queue = <<>>
       \/ /\ pc = "filterQuietHours"
          /\ input = <<>>
          /\ targetSchedules = <<>>
          /\ options \in QuietHoursOptions
          /\ clock = 0
          /\ queue \in FilterQueues

\* One call of generateFireDates(input).
GenerateFireDates ==
    /\ pc = "generateFireDates"
    /\ dates' = generateFireDates(input)
    /\ pc' = "expanded"
    /\ UNCHANGED <<input, walk, targetSchedules, options, clock, queue, filtered>>
    /\ UNCHANGED dispatchVars
    /\ UNCHANGED callerVars
    /\ UNCHANGED appVars

\* One call of buildQueue(targetSchedules, options).
BuildQueue ==
    /\ pc = "buildQueue"
    /\ queue' = buildQueue(targetSchedules, options, clock)
    /\ pc' = "queued"
    /\ UNCHANGED <<input, walk, dates, targetSchedules, options, clock, filtered>>
    /\ UNCHANGED dispatchVars
    /\ UNCHANGED callerVars
    /\ UNCHANGED appVars

\* One call of filterQuietHours(queue, options?.quietHours).
FilterQuietHours ==
    /\ pc = "filterQuietHours"
    /\ filtered' = filterQuietHours(queue, OrDefault(options, "quietHours", <<>>))
    /\ pc' = "filtered"
    /\ UNCHANGED <<input, walk, dates, targetSchedules, options, clock, queue>>
    /\ UNCHANGED dispatchVars
    /\ UNCHANGED callerVars
    /\ UNCHANGED appVars

Next == GenerateFireDates \/ BuildQueue \/ FilterQuietHours

Spec == Init /\ [][Next]_vars

\* ------------------------------------------------------------------------
\* The dispatch adapter: one call of scheduleBatch, cancelScheduleNotifications
\* or scheduleIfEligible, one action per answered notifier call.
\* ------------------------------------------------------------------------
InitDispatch ==
    /\ input = <<>>
    /\ dates = <<>>
    /\ walk = <<>>
    /\ filtered = <<>>
    /\ queue = <<>>
    /\ pending \in PendingInputs
    /\ nextIdentifier = Len(pending) + 1
    /\ scheduled = 0
    /\ error = <<>>
    /\ tasks = <<>>
    /\ calls = <<>>
    /\ result = <<>>
    /\ SingleCall
    /\ NoApp
    /\ \/ /\ pc = "scheduleBatch"
          /\ entry = [call |-> "scheduleBatch"]
          /\ targetSchedules \in DispatchBatches
          /\ options \in DispatchOptions
          /\ clock \in DispatchClocks
          /\ quietHours = DEFAULT_QUIET_HOURS
       \/ /\ pc = "cancelScheduleNotifications"
          /\ entry \in { [call |-> "cancelScheduleNotifications", scheduleId |-> id] :
                            id \in CancelIds }
          /\ targetSchedules = <<>>
          /\ options = <<>>
          /\ clock = 0
          /\ quietHours = DEFAULT_QUIET_HOURS
       \/ /\ pc = "scheduleIfEligible"
          /\ entry \in { [call |-> "scheduleIfEligible", schedule |-> s] :
                            s \in EligibleSchedules }
          /\ targetSchedules = <<>>
          /\ options = <<>>
          /\ clock \in EligibleClocks
          /\ quietHours \in { DEFAULT_QUIET_HOURS, NightQuiet }

\* scheduleBatch up to its first await: the queue is built and filtered; an
\* empty queue returns { count: 0 }.
ScheduleBatch ==
    /\ pc = "scheduleBatch"
    /\ LET built == filterQuietHours(buildQueue(targetSchedules, options, clock),
                                     OrDefault(options, "quietHours", <<>>))
       IN  /\ queue' = built
           /\ IF queueIsEmpty(built)
              THEN /\ result' = [count |-> 0]
                   /\ pc' = "returned"
              ELSE /\ result' = result
                   /\ pc' = "register"
    /\ scheduled' = 0
    /\ UNCHANGED <<targetSchedules, options, clock, entry, quietHours, pending,
                   nextIdentifier, error, tasks, calls>>
    /\ UNCHANGED pureVars
    /\ UNCHANGED callerVars
    /\ UNCHANGED appVars

nextItem_fromEnd(notifications, count) == notifications[Len(notifications) - count]

\* `for (const item of queue)`: the item of the iteration reached after
\* `count` completed iterations.
nextItem(notifications, count) == notifications[count + 1]

\* scheduleNotificationAsync for the next queue item resolves.
RegisterSucceeds ==
    /\ pc = "register"
    /\ LET request == notificationRequest(nextItem(queue, scheduled))
       IN  /\ pending' = afterSchedule(pending, nextIdentifier, request)
           /\ calls' = Append(calls, [op |-> "schedule", request |-> request, ok |-> TRUE])
    /\ nextIdentifier' = nextIdentifier + 1
    /\ scheduled' = scheduled + 1
    /\ IF scheduled + 1 = Len(queue)
       THEN /\ result' = [count |-> scheduled + 1]
            /\ pc' = "returned"
       ELSE /\ result' = result
            /\ pc' = "register"
    /\ UNCHANGED <<targetSchedules, options, clock, queue, entry, quietHours, error, tasks>>
    /\ UNCHANGED pureVars
    /\ UNCHANGED callerVars
    /\ UNCHANGED appVars

\* scheduleNotificationAsync for the next queue item rejects: the catch block
\* starts one cancelScheduleNotifications per schedule of the batch.
RegisterFails ==
    /\ pc = "register"
    /\ error' \in ErrorInputs
    /\ calls' = Append(calls, [op |-> "schedule",
                               request |-> notificationRequest(nextItem(queue, scheduled)),
                               ok |-> FALSE])
    /\ tasks' = [k \in 1..Len(targetSchedules) |-> cancelTask(targetSchedules[k].id)]
    /\ pc' = "cleanup"
    /\ UNCHANGED <<targetSchedules, options, clock, queue, entry, quietHours, pending,
                   nextIdentifier, scheduled, result>>
    /\ UNCHANGED pureVars
    /\ UNCHANGED callerVars
    /\ UNCHANGED appVars

\* getAllScheduledNotificationsAsync of activation k resolves.
GetAllSucceeds(k) ==
    /\ tasks[k].state = "getAll"
    /\ LET matches == matchesOf(pending, tasks[k].scheduleId)
       IN  tasks' = [tasks EXCEPT ![k] =
                        [@ EXCEPT !.matches = [i \in 1..Len(matches) |-> matches[i].identifier],
                                  !.state = IF Len(matches) = 0 THEN "done" ELSE "cancel"]]
    /\ calls' = Append(calls, [op |-> "getAll", ok |-> TRUE, answer |-> pending])
    /\ UNCHANGED <<pc, targetSchedules, options, clock, queue, entry, quietHours, pending,
                   nextIdentifier, scheduled, error, result>>
    /\ UNCHANGED pureVars
    /\ UNCHANGED callerVars
    /\ UNCHANGED appVars

\* getAllScheduledNotificationsAsync of activation k rejects.
GetAllFails(k) ==
    /\ tasks[k].state = "getAll"
    /\ tasks' = [tasks EXCEPT ![k].state = "failed"]
    /\ calls' = Append(calls, [op |-> "getAll", ok |-> FALSE])
    /\ UNCHANGED <<pc, targetSchedules, options, clock, queue, entry, quietHours, pending,
                   nextIdentifier, scheduled, error, result>>
    /\ UNCHANGED pureVars
    /\ UNCHANGED callerVars
    /\ UNCHANGED appVars

\* cancelScheduledNotificationAsync for the next match of activation k resolves.
CancelSucceeds(k) ==
    /\ tasks[k].state = "cancel"
    /\ LET identifier == tasks[k].matches[tasks[k].next]
       IN  /\ pending' = afterCancel(pending, identifier)
           /\ calls' = Append(calls, [op |-> "cancel", identifier |-> identifier, ok |-> TRUE])
    /\ tasks' = [tasks EXCEPT ![k] =
                    [@ EXCEPT !.next = @ + 1,
                              !.state = IF tasks[k].next = Len(tasks[k].matches)
                                        THEN "done" ELSE "cancel"]]
    /\ UNCHANGED <<pc, targetSchedules, options, clock, queue, entry, quietHours,
                   nextIdentifier, scheduled, error, result>>
    /\ UNCHANGED pureVars
    /\ UNCHANGED callerVars
    /\ UNCHANGED appVars

\* cancelScheduledNotificationAsync for the next match of activation k rejects.
CancelFails(k) ==
    /\ tasks[k].state = "cancel"
    /\ tasks' = [tasks EXCEPT ![k].state = "failed"]
    /\ calls' = Append(calls, [op |-> "cancel",
                               identifier |-> tasks[k].matches[tasks[k].next],
                               ok |-> FALSE])
    /\ UNCHANGED <<pc, targetSchedules, options, clock, queue, entry, quietHours, pending,
                   nextIdentifier, scheduled, error, result>>
    /\ UNCHANGED pureVars
    /\ UNCHANGED callerVars
    /\ UNCHANGED appVars

\* The Promise.all of the catch block settles: resolved when every activation
\* returned, rejected as soon as one rejected (ignored); scheduleBatch returns.
CleanupSettles ==
    /\ pc = "cleanup"
    /\ \/ \E k \in 1..Len(tasks) : tasks[k].state = "failed"
       \/ \A k \in 1..Len(tasks) : tasks[k].state = "done"
    /\ result' = [count |-> 0, error |-> formatError(error)]
    /\ pc' = "returned"
    /\ UNCHANGED <<targetSchedules, options, clock, queue, entry, quietHours, pending,
                   nextIdentifier, scheduled, error, tasks, calls>>
    /\ UNCHANGED pureVars
    /\ UNCHANGED callerVars
    /\ UNCHANGED appVars

\* cancelScheduleNotifications(scheduleId) called on its own.
CancelScheduleNotifications ==
    /\ pc = "cancelScheduleNotifications"
    /\ tasks' = <<cancelTask(entry.scheduleId)>>
    /\ pc' = "cancelling"
    /\ UNCHANGED <<targetSchedules, options, clock, queue, entry, quietHours, pending,
                   nextIdentifier, scheduled, error, calls, result>>
    /\ UNCHANGED pureVars
    /\ UNCHANGED callerVars
    /\ UNCHANGED appVars

\* It returns matches.length, or rejects with the error of the failed call.
CancelSettles ==
    /\ pc = "cancelling"
    /\ \/ /\ tasks[1].state = "done"
          /\ result' = Len(tasks[1].matches)
          /\ pc' = "returned"
       \/ /\ tasks[1].state = "failed"
          /\ result' = result
          /\ pc' = "threw"
    /\ UNCHANGED <<targetSchedules, options, clock, queue, entry, quietHours, pending,
                   nextIdentifier, scheduled, error, tasks, calls>>
    /\ UNCHANGED pureVars
    /\ UNCHANGED callerVars
    /\ UNCHANGED appVars

\* scheduleIfEligible(schedule) up to its first await.
ScheduleIfEligible ==
    /\ pc = "scheduleIfEligible"
    /\ tasks' = <<cancelTask(entry.schedule.id)>>
    /\ pc' = "eligibleCancel"
    /\ UNCHANGED <<targetSchedules, options, clock, queue, entry, quietHours, pending,
                   nextIdentifier, scheduled, error, calls, result>>
    /\ UNCHANGED pureVars
    /\ UNCHANGED callerVars
    /\ UNCHANGED appVars

\* Its cancelScheduleNotifications settled: scheduleBatch([schedule],
\* { quietHours, horizonHours }) is called, or the rejection propagates.
EligibleCancelSettles ==
    /\ pc = "eligibleCancel"
    /\ \/ /\ tasks[1].state = "done"
          /\ targetSchedules' = <<entry.schedule>>
          /\ options' = [quietHours |-> quietHours,
                         horizonHours |-> eligibleHorizonHours(entry.schedule)]
          /\ pc' = "scheduleBatch"
       \/ /\ tasks[1].state = "failed"
          /\ UNCHANGED <<targetSchedules, options>>
          /\ pc' = "threw"
    /\ UNCHANGED <<clock, queue, entry, quietHours, pending, nextIdentifier, scheduled,
                   error, tasks, calls, result>>
    /\ UNCHANGED pureVars
    /\ UNCHANGED callerVars
    /\ UNCHANGED appVars

NextDispatch ==
    \/ ScheduleBatch
    \/ RegisterSucceeds
    \/ RegisterFails
    \/ \E k \in 1..Len(tasks) : GetAllSucceeds(k)
    \/ \E k \in 1..Len(tasks) : GetAllFails(k)
    \/ \E k \in 1..Len(tasks) : CancelSucceeds(k)
    \/ \E k \in 1..Len(tasks) : CancelFails(k)
    \/ CleanupSettles
    \/ CancelScheduleNotifications
    \/ CancelSettles
    \/ ScheduleIfEligible
    \/ EligibleCancelSettles

SpecDispatch == InitDispatch /\ [][NextDispatch]_vars

\* ------------------------------------------------------------------------
\* Re-arming: the same dispatch function called a second time for the same
\* schedule, at the same time and under the same quiet hours.
\* ------------------------------------------------------------------------
\* A schedule with three fire times in the week ahead, of which the night
\* quiet hours leave one.
LateEvening(id) ==
    [createSchedule(id, "withinDay", 0) EXCEPT
        !.intervalMinutes = 60,
        !.startMinutesFromMidnight = 21 * 60,
        !.endMinutesFromMidnight = 23 * 60 + 30,
        !.daysOfWeek = MonOnly]

RearmSchedules == { LateEvening("s1"), [LateEvening("s1") EXCEPT !.intervalMinutes = 120] }

InitRearm ==
    /\ input = <<>>
    /\ dates = <<>>
    /\ walk = <<>>
    /\ filtered = <<>>
    /\ queue = <<>>
    /\ pending \in PendingInputs
    /\ nextIdentifier = Len(pending) + 1
    /\ scheduled = 0
    /\ error = <<>>
    /\ tasks = <<>>
    /\ calls = <<>>
    /\ result = <<>>
    /\ SingleCall
    /\ NoApp
    /\ clock \in EligibleClocks
    /\ quietHours \in { DEFAULT_QUIET_HOURS, NightQuiet }
    /\ \E s \in RearmSchedules :
          \/ /\ pc = "scheduleBatch"
             /\ entry = [call |-> "scheduleBatch", schedule |-> s]
             /\ targetSchedules = <<s>>
             /\ options = [quietHours |-> quietHours,
                           horizonHours |-> eligibleHorizonHours(s)]
          \/ /\ pc = "scheduleIfEligible"
             /\ entry = [call |-> "scheduleIfEligible", schedule |-> s]
             /\ targetSchedules = <<>>
             /\ options = <<>>

\* The first call returned: the caller makes the same call again.
CallAgain ==
    /\ pc = "returned"
    /\ repeat = 1
    /\ repeat' = 2
    /\ snapshot' = pending
    /\ pc' = entry.call
    /\ scheduled' = 0
    /\ error' = <<>>
    /\ tasks' = <<>>
    /\ result' = <<>>
    /\ UNCHANGED <<targetSchedules, options, clock, queue, entry, quietHours, pending,
                   nextIdentifier, calls, event, settings>>
    /\ UNCHANGED pureVars
    /\ UNCHANGED appVars

NextRearm ==
    \/ ScheduleBatch
    \/ RegisterSucceeds
    \/ RegisterFails
    \/ \E k \in 1..Len(tasks) : GetAllSucceeds(k)
    \/ \E k \in 1..Len(tasks) : GetAllFails(k)
    \/ \E k \in 1..Len(tasks) : CancelSucceeds(k)
    \/ \E k \in 1..Len(tasks) : CancelFails(k)
    \/ CleanupSettles
    \/ ScheduleIfEligible
    \/ EligibleCancelSettles
    \/ CallAgain

SpecRearm == InitRearm /\ [][NextRearm]_vars

\* ------------------------------------------------------------------------
\* The geofence task (location-task.ts): one run of the handler for a region
\* event, one action per await.
\* ------------------------------------------------------------------------
\* A stored schedule without a place has locationId null.
null == "null"

\* A stored schedule bound to the place `locationId`.
Stored(id, locationId, isActive) ==
    withField([LateEvening(id) EXCEPT !.isActive = isActive], "locationId", locationId)

GeofenceSchedules ==
    { << Stored("s1", "home", TRUE), Stored("s2", "work", TRUE),
         Stored("s3", "home", TRUE), Stored("s9", "home", FALSE),
         Stored("s4", null, TRUE) >>,
      << Stored("s1", "home", TRUE), Stored("s9", "work", FALSE) >> }

\* What loadSettings() resolves to: null, or the stored settings.
GeofenceSettings ==
    { <<>> } \cup { [schedules |-> l, quietHours |-> q] :
                      l \in GeofenceSchedules, q \in { DEFAULT_QUIET_HOURS, NightQuiet } }

\* The task body: an error, no data, or a region event.
GeofenceEvents ==
    { [error |-> TRUE], [error |-> FALSE] }
        \cup { [error |-> FALSE, eventType |-> t, region |-> [identifier |-> r]] :
                  t \in {"Enter", "Exit"}, r \in {"home", "work", "gym"} }

\* Registrations pending before the event: of every stored schedule.
GeofencePending ==
    { <<>>,
      [i \in 1..5 |->
          [identifier |-> i,
           scheduleId |-> <<"s1", "s2", "s3", "s9", "s1">>[i],
           date |-> TimeOfDay(20, 0, 0) + i,
           body |-> DEFAULT_MESSAGE]] }

\* Variant: inactive schedules of the region are targets as well.
targetsOf_anyActivity(stored, regionId) ==
    SelectSeq(stored, LAMBDA schedule : schedule.locationId = regionId)

\* settings.schedules.filter(schedule => schedule.isActive &&
\* schedule.locationId === regionId)
targetsOf(stored, regionId) ==
    SelectSeq(stored, LAMBDA schedule : schedule.isActive /\ schedule.locationId = regionId)

InitGeofence ==
    /\ input = <<>>
    /\ dates = <<>>
    /\ walk = <<>>
    /\ filtered = <<>>
    /\ queue = <<>>
    /\ pending \in GeofencePending
    /\ nextIdentifier = Len(pending) + 1
    /\ scheduled = 0
    /\ error = <<>>
    /\ tasks = <<>>
    /\ calls = <<>>
    /\ result = <<>>
    /\ repeat = 1
    /\ snapshot = pending
    /\ NoApp
    /\ event \in GeofenceEvents
    /\ settings \in GeofenceSettings
    /\ pc = "geofenceTask"
    /\ entry = [call |-> "geofenceTask"]
    /\ targetSchedules = <<>>
    /\ options = <<>>
    /\ clock \in EligibleClocks
    /\ quietHours = DEFAULT_QUIET_HOURS

\* The handler up to `await loadSettings()`: it returns on an error and on an
\* event without a region.
GeofenceTask ==
    /\ pc = "geofenceTask"
    /\ pc' = IF event.error \/ "region" \notin DOMAIN event
             THEN "returned" ELSE "loadSettings"
    /\ UNCHANGED <<targetSchedules, options, clock, queue, entry, quietHours, pending,
                   nextIdentifier, scheduled, error, tasks, calls, result>>
    /\ UNCHANGED pureVars
    /\ UNCHANGED callerVars
    /\ UNCHANGED appVars

\* loadSettings() resolved: without settings or target schedules the handler
\* returns, otherwise it starts one cancelScheduleNotifications per target.
LoadSettingsSettles ==
    /\ pc = "loadSettings"
    /\ LET targets == IF settings = <<>> THEN <<>>
                      ELSE targetsOf(settings.schedules, event.region.identifier)
       IN  IF Len(targets) = 0
           THEN /\ pc' = "returned"
                /\ UNCHANGED <<targetSchedules, tasks>>
           ELSE /\ targetSchedules' = targets
                /\ tasks' = [k \in 1..Len(targets) |-> cancelTask(targets[k].id)]
                /\ pc' = "geofenceCancel"
    /\ UNCHANGED <<options, clock, queue, entry, quietHours, pending, nextIdentifier,
                   scheduled, error, calls, result>>
    /\ UNCHANGED pureVars
    /\ UNCHANGED callerVars
    /\ UNCHANGED appVars

\* The Promise.all of the cancellations settles: a rejection ends the handler;
\* otherwise an exit event returns and an enter event calls
\* scheduleBatch(targetSchedules, { quietHours: settings.quietHours }).
GeofenceCancelSettles ==
    /\ pc = "geofenceCancel"
    /\ \/ /\ \E k \in 1..Len(tasks) : tasks[k].state = "failed"
          /\ pc' = "threw"
          /\ options' = options
       \/ /\ \A k \in 1..Len(tasks) : tasks[k].state = "done"
          /\ IF event.eventType = "Enter"
             THEN /\ options' = [quietHours |-> settings.quietHours]
                  /\ pc' = "scheduleBatch"
             ELSE /\ options' = options
                  /\ pc' = "returned"
    /\ UNCHANGED <<targetSchedules, clock, queue, entry, quietHours, pending, nextIdentifier,
                   scheduled, error, tasks, calls, result>>
    /\ UNCHANGED pureVars
    /\ UNCHANGED callerVars
    /\ UNCHANGED appVars

NextGeofence ==
    \/ GeofenceTask
    \/ LoadSettingsSettles
    \/ GeofenceCancelSettles
    \/ ScheduleBatch
    \/ RegisterSucceeds
    \/ RegisterFails
    \/ \E k \in 1..Len(tasks) : GetAllSucceeds(k)
    \/ \E k \in 1..Len(tasks) : GetAllFails(k)
    \/ \E k \in 1..Len(tasks) : CancelSucceeds(k)
    \/ \E k \in 1..Len(tasks) : CancelFails(k)
    \/ CleanupSettles

SpecGeofence == InitGeofence /\ [][NextGeofence]_vars

\* ------------------------------------------------------------------------
\* Stored settings (storage.ts).  The settings item is modelled after
\* JSON.parse: an object whose fields are present with a value of the
\* expected type, or absent.  Names and saved places are left out.
\* ------------------------------------------------------------------------
\* isValidSchedule(value): the fields that must be there, and a day mask that
\* is absent or has seven entries.
isValidSchedule(value) ==
    /\ {"id", "intervalMinutes", "startMinutesFromMidnight",
        "endMinutesFromMidnight", "message"} \subseteq DOMAIN value
    /\ \/ "daysOfWeek" \notin DOMAIN value
       \/ Len(value.daysOfWeek) = 7

\* normalizeQuietHours(value) for an absent or partly filled object.
normalizeQuietHours(value) ==
    [enabled |-> OrDefault(value, "enabled", FALSE),
     startMinutesFromMidnight |->
         IF "startMinutesFromMidnight" \in DOMAIN value
         THEN normalizeMinutes(value.startMinutesFromMidnight)
         ELSE DEFAULT_QUIET_HOURS.startMinutesFromMidnight,
     endMinutesFromMidnight |->
         IF "endMinutesFromMidnight" \in DOMAIN value
         THEN normalizeMinutes(value.endMinutesFromMidnight)
         ELSE DEFAULT_QUIET_HOURS.endMinutesFromMidnight]

\* normalizeLocations(value): the entries that have an id, a name and
\* coordinates (one `position` here); [] when nothing is stored.
normalizeLocations(value) ==
    SelectSeq(value, LAMBDA place : {"id", "name", "position"} \subseteq DOMAIN place)

\* The places loadSettings() returns: the stored ones, then the legacy home
\* and work coordinates under the ids 'home' and 'work' unless these are taken.
loadedLocations(item) ==
    LET has(list, id) == \E i \in 1..Len(list) : list[i].id = id
        legacy(list, field, id, name) ==
            IF field \in DOMAIN item /\ ~has(list, id)
            THEN Append(list, [id |-> id, name |-> name, position |-> item[field]])
            ELSE list
    IN  legacy(legacy(normalizeLocations(OrDefault(item, "locations", <<>>)),
                      "homeLocation", "home", "Home"),
               "workLocation", "work", "Work")

\* The locationId loadSettings gives a schedule: `locationId ?? locationFilter`
\* when that is the id of a returned place, null otherwise ('anywhere',
\* nothing stored, an unknown id).
loadedLocationId(normalized, locationIds) ==
    LET own == OrDefault(normalized, "locationId", null)
        rawLocation == IF own # null THEN own
                       ELSE OrDefault(normalized, "locationFilter", null)
    IN  IF rawLocation # null /\ rawLocation # "anywhere"
        THEN IF rawLocation \in locationIds THEN rawLocation ELSE null
        ELSE null

\* The object loadSettings builds for a valid stored schedule: the stored
\* fields, with daysOfWeek normalized, isActive defaulted and locationId
\* checked against the ids of the returned places.
loadedSchedule(normalized, defaultActive, locationIds) ==
    [f \in DOMAIN normalized \cup {"daysOfWeek", "isActive", "locationId"} |->
        CASE f = "daysOfWeek" ->
                normalizeDaysOfWeek(OrDefault(normalized, "daysOfWeek", <<>>))
          [] f = "isActive" -> OrDefault(normalized, "isActive", defaultActive)
          [] f = "locationId" -> loadedLocationId(normalized, locationIds)
          [] OTHER -> normalized[f]]

\* loadSettings(): null (<<>>) without an item or without a schedules array.
loadSettings(item) ==
    IF item = <<>> \/ "schedules" \notin DOMAIN item
    THEN <<>>
    ELSE LET defaultActive == OrDefault(item, "isActive", FALSE)
             valid == SelectSeq(item.schedules, isValidSchedule)
             places == loadedLocations(item)
             locationIds == { places[i].id : i \in 1..Len(places) }
         IN  [schedules |-> [i \in 1..Len(valid) |->
                                loadedSchedule(valid[i], defaultActive, locationIds)],
              locations |-> places,
              quietHours |-> normalizeQuietHours(OrDefault(item, "quietHours", <<>>))]

\* ------------------------------------------------------------------------
\* The App component (App.tsx): pure parts of its handlers
\* ------------------------------------------------------------------------
areDaysEqual(left, right) == normalizeDaysOfWeek(left) = normalizeDaysOfWeek(right)

\* hasChanged in the edit-detection effect; an absent field is `undefined`.
hasChanged(schedule, previous) ==
    LET undefined == "undefined"
    IN  \/ OrDefault(schedule, "type", undefined) # OrDefault(previous, "type", undefined)
        \/ schedule.intervalMinutes # previous.intervalMinutes
        \/ schedule.startMinutesFromMidnight # previous.startMinutesFromMidnight
        \/ schedule.endMinutesFromMidnight # previous.endMinutesFromMidnight
        \/ ("dayOfMonth" \in DOMAIN schedule) # ("dayOfMonth" \in DOMAIN previous)
        \/ /\ "dayOfMonth" \in DOMAIN schedule
           /\ "dayOfMonth" \in DOMAIN previous
           /\ schedule.dayOfMonth # previous.dayOfMonth
        \/ schedule.message # previous.message
        \/ ~areDaysEqual(schedule.daysOfWeek, previous.daysOfWeek)

\* schedules.find(item => item.id === id), <<>> when there is none.
findSchedule(list, id) ==
    LET found == SelectSeq(list, LAMBDA schedule : schedule.id = id)
    IN  IF Len(found) = 0 THEN <<>> ELSE found[1]

\* current.map(schedule => schedule.id === id ? replacement : schedule)
replaceSchedule(list, id, replacement) ==
    [i \in 1..Len(list) |-> IF list[i].id = id THEN replacement ELSE list[i]]

setScheduleActive(list, scheduleId, isActive) ==
    [i \in 1..Len(list) |->
        IF list[i].id = scheduleId THEN [list[i] EXCEPT !.isActive = isActive] ELSE list[i]]

\* Variant: the timer that is there is left running.
clearRescheduleTimer_kept(map, scheduleId) == map

\* clearRescheduleTimer(scheduleId): clearTimeout and delete.
clearRescheduleTimer(map, scheduleId) ==
    [id \in DOMAIN map \ {scheduleId} |-> map[id]]

\* stepInterval: five minutes up or down, kept within the limits.
stepInterval(schedule, direction) ==
    [schedule EXCEPT !.intervalMinutes =
        Min(MAX_INTERVAL, Max(MIN_INTERVAL, schedule.intervalMinutes + direction * 5))]

\* commitIntervalDraft: the draft text parsed to a number and clamped.
commitIntervalDraft(schedule, parsed) ==
    [schedule EXCEPT !.intervalMinutes = Min(MAX_INTERVAL, Max(MIN_INTERVAL, parsed))]

\* normalizeDayOfMonth(schedule.dayOfMonth)
dayOfMonthOf(schedule, today) ==
    IF "dayOfMonth" \in DOMAIN schedule
    THEN clampDayOfMonth(schedule.dayOfMonth)
    ELSE normalizeDayOfMonth(today)

stepDayOfMonth(schedule, direction, today) ==
    withField(schedule, "dayOfMonth", clampDayOfMonth(dayOfMonthOf(schedule, today) + direction))

commitDayOfMonthDraft(schedule, parsed) ==
    withField(schedule, "dayOfMonth", clampDayOfMonth(parsed))

toggleScheduleDay(schedule, dayIndex) ==
    LET days == normalizeDaysOfWeek(schedule.daysOfWeek)
    IN  [schedule EXCEPT !.daysOfWeek = [days EXCEPT ![dayIndex + 1] = ~days[dayIndex + 1]]]

\* onPickerChange for a schedule: the start of a schedule that is not
\* 'withinDay' moves its end as well.
onPickerChange(schedule, kind, minutes) ==
    IF kind = "start"
    THEN IF getScheduleType(schedule) = "withinDay"
         THEN [schedule EXCEPT !.startMinutesFromMidnight = minutes]
         ELSE [schedule EXCEPT !.startMinutesFromMidnight = minutes,
                               !.endMinutesFromMidnight = minutes]
    ELSE [schedule EXCEPT !.endMinutesFromMidnight = minutes]

\* updateScheduleType: days, dayOfMonth and window end follow the new type.
updateScheduleType(schedule, nextType, today) ==
    IF OrDefault(schedule, "type", "undefined") = nextType
    THEN schedule
    ELSE LET currentDays == normalizeDaysOfWeek(schedule.daysOfWeek)
             hasSelectedDays == \E i \in 1..7 : currentDays[i]
             nextDays == IF nextType = "weekly"
                         THEN IF hasSelectedDays THEN currentDays
                              ELSE getWeeklyDefaultDays(today)
                         ELSE DEFAULT_DAYS
             nextEndMinutes ==
                 IF nextType = "withinDay"
                 THEN IF OrDefault(schedule, "type", "undefined") = "withinDay"
                      THEN schedule.endMinutesFromMidnight
                      ELSE Min(schedule.startMinutesFromMidnight + 8 * 60, 23 * 60 + 59)
                 ELSE schedule.startMinutesFromMidnight
             typed == [f \in (DOMAIN schedule \cup {"type"}) \ {"dayOfMonth"} |->
                          CASE f = "type" -> nextType
                            [] f = "daysOfWeek" -> nextDays
                            [] f = "endMinutesFromMidnight" -> nextEndMinutes
                            [] OTHER -> schedule[f]]
         IN  IF nextType = "monthly"
             THEN withField(typed, "dayOfMonth", dayOfMonthOf(schedule, today))
             ELSE typed

\* ------------------------------------------------------------------------
\* The App component: renders, effects and the activations of its async
\* functions.  A handler (or the continuation of an activation after an
\* await) is one action together with the render its state updates cause and
\* the effects of that render.  The 300 ms of a debounce timer are not
\* measured: a pending timer may fire at any later moment.
\* ------------------------------------------------------------------------
MaxEvents == 2
MaxDraftEdits == 1
MaxFailures == 1
MaxPasses == 2

\* The variables of the library calls, which the App leaves alone.
callVars ==
    <<pc, input, dates, walk, targetSchedules, options, clock, queue, filtered, entry,
      scheduled, error, tasks, calls, result, repeat, snapshot, event, settings, sheet>>

\* What a debounce timer's callback closes over: the schedule handed to
\* debouncedReschedule, and the quietHours and authorizationStatus of the
\* render whose rescheduleSchedule it calls.
timerOf(schedule, quiet, status) ==
    [schedule |-> schedule, quietHours |-> quiet, authorizationStatus |-> status]

\* An activation that has reached its first await.  `quiet` is the quietHours
\* of the render whose scheduleIfEligible it runs.  `alone` is history: no
\* other activation for the id was in flight, and no timer was set for it,
\* since this activation began.
newPass(kind, schedule, quiet, at) ==
    [kind |-> kind, id |-> schedule.id, schedule |-> schedule, quietHours |-> quiet,
     pc |-> at, matches |-> <<>>, next |-> 1, queue |-> <<>>, scheduled |-> 0,
     alone |-> TRUE]

\* rescheduleSchedule(schedule, { preserveActive: true }) up to its first
\* await: nothing is started unless notifications are authorized.
rescheduleSchedule(schedule, quiet, status) ==
    IF status # "authorized" THEN <<>> ELSE <<newPass("rearm", schedule, quiet, "getAll")>>

\* The effect on [quietHours, isHydrated]: every active schedule is re-armed.
quietHoursEffect(list, quiet, status) ==
    LET activeSchedules == SelectSeq(list, LAMBDA schedule : schedule.isActive)
    IN  IF status # "authorized" THEN <<>>
        ELSE [k \in 1..Len(activeSchedules) |->
                 newPass("rearm", activeSchedules[k], quiet, "getAll")]

\* The effect on [schedules, isHydrated]: debouncedReschedule for every
\* schedule that was and is active and whose fields changed.
changedIds(list, previous) ==
    LET changed == { i \in 1..Len(list) :
                        /\ list[i].isActive
                        /\ \E j \in 1..Len(previous) :
                              /\ previous[j].id = list[i].id
                              /\ previous[j].isActive
                              /\ hasChanged(list[i], previous[j]) }
    IN  { list[i].id : i \in changed }

\* Variant: debouncedReschedule leaves a pending timer of the id in place.
editEffect_pendingKept(map, list, previous, quiet, status) ==
    [id \in DOMAIN map \cup changedIds(list, previous) |->
        IF id \in DOMAIN map
        THEN map[id]
        ELSE timerOf(findSchedule(list, id), quiet, status)]

editEffect(map, list, previous, quiet, status) ==
    [id \in DOMAIN map \cup changedIds(list, previous) |->
        IF id \in changedIds(list, previous)
        THEN timerOf(findSchedule(list, id), quiet, status)
        ELSE map[id]]

\* The history flag of the activations after a render that set timers for
\* the ids in `set`.
marked(activations, set) ==
    [k \in 1..Len(activations) |->
        [activations[k] EXCEPT
            !.alone = /\ @
                      /\ activations[k].id \notin set
                      /\ \A j \in 1..Len(activations) :
                            j # k => activations[j].id # activations[k].id]]

\* The render after a state update and its effects.  `quietSet` tells that
\* setQuietHours was called (with a new object, whatever its values).
Render(list, quiet, quietSet, status, map, activations) ==
    /\ schedules' = list
    /\ quietHours' = quiet
    /\ authorizationStatus' = status
    /\ IF isHydrated
       THEN /\ passes' = marked(activations \o (IF quietSet
                                                THEN quietHoursEffect(list, quiet, status)
                                                ELSE <<>>),
                                changedIds(list, previousSchedules))
            /\ timers' = editEffect(map, list, previousSchedules, quiet, status)
            /\ previousSchedules' = list
            /\ storage' = [schedules |-> list, quietHours |-> quiet]
       ELSE /\ passes' = activations
            /\ timers' = map
            /\ UNCHANGED <<previousSchedules, storage>>
    /\ Len(passes') <= MaxPasses

\* ---- user events ----
Mounted == pc \in {"hydrate", "refreshAuthorization", "app"}

UserEvent ==
    /\ Mounted
    /\ budget < MaxEvents
    /\ budget' = budget + 1

\* onStartSchedule(scheduleId) up to its first await.
OnStartSchedule(scheduleId) ==
    /\ UserEvent
    /\ findSchedule(schedules, scheduleId) # <<>>
    /\ LET schedule == findSchedule(schedules, scheduleId)
           started == [schedule EXCEPT !.isActive = TRUE]
       IN  IF authorizationStatus = "authorized"
           THEN Render(setScheduleActive(schedules, scheduleId, TRUE), quietHours, FALSE,
                       authorizationStatus,
                       clearRescheduleTimer(timers, scheduleId),
                       Append(passes, newPass("start", started, quietHours, "getAll")))
           ELSE Render(setScheduleActive(schedules, scheduleId, TRUE), quietHours, FALSE,
                       authorizationStatus, timers,
                       Append(passes, newPass("start", started, quietHours, "auth")))
    /\ UNCHANGED <<draftSchedule, detailMode, isHydrated, failures, removedIds, edits,
                   lastOutcome, pending, nextIdentifier>>
    /\ UNCHANGED callVars

\* onStopSchedule(scheduleId) up to its await.
OnStopSchedule(scheduleId) ==
    /\ UserEvent
    /\ findSchedule(schedules, scheduleId) # <<>>
    /\ Render(schedules, quietHours, FALSE, authorizationStatus,
              clearRescheduleTimer(timers, scheduleId),
              Append(passes, newPass("stop", findSchedule(schedules, scheduleId),
                                     quietHours, "getAll")))
    /\ UNCHANGED <<draftSchedule, detailMode, isHydrated, failures, removedIds, edits,
                   lastOutcome, pending, nextIdentifier>>
    /\ UNCHANGED callVars

\* removeSchedule(id) up to its await.
RemoveSchedule(id) ==
    /\ UserEvent
    /\ findSchedule(schedules, id) # <<>>
    /\ Render(schedules, quietHours, FALSE, authorizationStatus,
              clearRescheduleTimer(timers, id),
              Append(passes, newPass("remove", findSchedule(schedules, id),
                                     quietHours, "getAll")))
    /\ removedIds' = removedIds \cup {id}
    /\ UNCHANGED <<draftSchedule, detailMode, isHydrated, failures, edits,
                   lastOutcome, pending, nextIdentifier>>
    /\ UNCHANGED callVars

\* updateQuietHours({ enabled: value }) from the quiet-hours switch, whose
\* onValueChange hands over the value switched to.
UpdateQuietHours(value) ==
    /\ UserEvent
    /\ Render(schedules, [quietHours EXCEPT !.enabled = value], TRUE,
              authorizationStatus, timers, passes)
    /\ UNCHANGED <<draftSchedule, detailMode, isHydrated, failures, removedIds, edits,
                   lastOutcome, pending, nextIdentifier>>
    /\ UNCHANGED callVars

\* openScheduleDetail(scheduleId): the draft is a copy of the schedule.
OpenScheduleDetail(scheduleId) ==
    /\ Mounted
    /\ draftSchedule = <<>>
    /\ findSchedule(schedules, scheduleId) # <<>>
    /\ LET schedule == findSchedule(schedules, scheduleId)
       IN  draftSchedule' =
               [schedule EXCEPT !.daysOfWeek = normalizeDaysOfWeek(schedule.daysOfWeek)]
    /\ detailMode' = "edit"
    /\ edits' = 0
    /\ UNCHANGED <<schedules, quietHours, authorizationStatus, isHydrated, storage,
                   previousSchedules, timers, passes, budget, failures, removedIds,
                   lastOutcome, pending, nextIdentifier>>
    /\ UNCHANGED callVars

\* addSchedule(): the draft is a fresh schedule; its id is new.
AddSchedule(newId) ==
    /\ Mounted
    /\ draftSchedule = <<>>
    /\ findSchedule(schedules, newId) = <<>>
    /\ draftSchedule' = createSchedule(newId, "withinDay", clock)
    /\ detailMode' = "add"
    /\ edits' = 0
    /\ UNCHANGED <<schedules, quietHours, authorizationStatus, isHydrated, storage,
                   previousSchedules, timers, passes, budget, failures, removedIds,
                   lastOutcome, pending, nextIdentifier>>
    /\ UNCHANGED callVars

\* A handler of the detail sheet: with a draft open it changes the draft.
EditDraft(edited) ==
    /\ Mounted
    /\ draftSchedule # <<>>
    /\ edits < MaxDraftEdits
    /\ edits' = edits + 1
    /\ draftSchedule' = edited
    /\ draftSchedule' # draftSchedule
    /\ UNCHANGED <<schedules, quietHours, authorizationStatus, detailMode, isHydrated,
                   storage, previousSchedules, timers, passes, budget, failures,
                   removedIds, lastOutcome, pending, nextIdentifier>>
    /\ UNCHANGED callVars

StepInterval(direction) == EditDraft(stepInterval(draftSchedule, direction))
CommitIntervalDraft(parsed) == EditDraft(commitIntervalDraft(draftSchedule, parsed))
StepDayOfMonth(direction) == EditDraft(stepDayOfMonth(draftSchedule, direction, clock))
CommitDayOfMonthDraft(parsed) == EditDraft(commitDayOfMonthDraft(draftSchedule, parsed))
ToggleScheduleDay(dayIndex) == EditDraft(toggleScheduleDay(draftSchedule, dayIndex))
OnPickerChange(kind, minutes) == EditDraft(onPickerChange(draftSchedule, kind, minutes))
UpdateScheduleType(nextType) == EditDraft(updateScheduleType(draftSchedule, nextType, clock))
UpdateMessage(value) == EditDraft([draftSchedule EXCEPT !.message = value])

\* saveScheduleDetail(): the draft is appended or replaces the schedule of
\* its id; the sheet closes and the draft is dropped with it.
SaveScheduleDetail ==
    /\ UserEvent
    /\ draftSchedule # <<>>
    /\ Render(IF detailMode = "add"
              THEN Append(schedules, draftSchedule)
              ELSE replaceSchedule(schedules, draftSchedule.id, draftSchedule),
              quietHours, FALSE, authorizationStatus, timers, passes)
    /\ draftSchedule' = <<>>
    /\ detailMode' = "null"
    /\ edits' = 0
    /\ UNCHANGED <<isHydrated, failures, removedIds, lastOutcome, pending,
                   nextIdentifier>>
    /\ UNCHANGED callVars

\* closeDetailSheet('discard'): the draft is dropped.
DiscardScheduleDetail ==
    /\ Mounted
    /\ draftSchedule # <<>>
    /\ draftSchedule' = <<>>
    /\ detailMode' = "null"
    /\ edits' = 0
    /\ UNCHANGED <<schedules, quietHours, authorizationStatus, isHydrated, storage,
                   previousSchedules, timers, passes, budget, failures, removedIds,
                   lastOutcome, pending, nextIdentifier>>
    /\ UNCHANGED callVars

\* The debounce timer of `id` fires: the entry is deleted and
\* rescheduleSchedule of the timer's render is called.
TimerFires(id) ==
    /\ Mounted
    /\ id \in DOMAIN timers
    /\ Render(schedules, quietHours, FALSE, authorizationStatus,
              clearRescheduleTimer(timers, id),
              passes \o rescheduleSchedule(timers[id].schedule, timers[id].quietHours,
                                           timers[id].authorizationStatus))
    /\ UNCHANGED <<draftSchedule, detailMode, isHydrated, budget, failures, removedIds,
                   edits, lastOutcome, pending, nextIdentifier>>
    /\ UNCHANGED callVars

\* ---- activations ----
\* The list of activations without the k-th.
withoutPass(k) ==
    [i \in 1..(Len(passes) - 1) |-> IF i < k THEN passes[i] ELSE passes[i + 1]]

\* The schedules after an activation returned: onStartSchedule sets the
\* schedule inactive unless alerts were scheduled (with location gating it
\* sets it active on a skipped result), onStopSchedule sets it inactive
\* unless the cancellation threw, removeSchedule drops it whatever the
\* cancellation did, rescheduleSchedule with preserveActive changes nothing.
schedulesAfter(list, kind, id, outcome) ==
    CASE kind = "start" /\ outcome \in {"denied", "error", "empty", "threw"} ->
            setScheduleActive(list, id, FALSE)
      [] kind = "start" /\ outcome = "skipped" -> setScheduleActive(list, id, TRUE)
      [] kind = "stop" /\ outcome = "stopped" -> setScheduleActive(list, id, FALSE)
      [] kind = "remove" -> SelectSeq(list, LAMBDA schedule : schedule.id # id)
      [] OTHER -> list

\* The activation k returns.
Finish(k, outcome, status) ==
    /\ Render(schedulesAfter(schedules, passes[k].kind, passes[k].id, outcome),
              quietHours, FALSE, status, timers, withoutPass(k))
    /\ UNCHANGED edits
    /\ lastOutcome' = [kind |-> passes[k].kind, id |-> passes[k].id, outcome |-> outcome,
                        alone |-> passes[k].alone]

\* The activation k goes on to its next await, or returns.
Advance(k, step) ==
    IF step.done
    THEN Finish(k, step.outcome, authorizationStatus)
    ELSE /\ passes' = [passes EXCEPT ![k] = step.pass]
         /\ UNCHANGED <<schedules, quietHours, authorizationStatus, timers,
                        previousSchedules, storage, edits, lastOutcome>>

InCleanup(pass) == pass.pc \in {"cleanupGetAll", "cleanupCancel"}

\* cancelScheduleNotifications returned to the activation: the cleanup of a
\* failed batch ends in { count: 0, error }; a stop or a removal is done;
\* scheduleIfEligible goes on with scheduleBatch([schedule], { quietHours,
\* horizonHours }), which returns { count: 0 } for an empty queue.
scheduleNotificationsBatch(pass, batchOptions) ==
    LET built == filterQuietHours(buildQueue(<<pass.schedule>>, batchOptions, clock),
                                  pass.quietHours)
    IN  IF queueIsEmpty(built)
        THEN [done |-> TRUE, outcome |-> "empty"]
        ELSE [done |-> FALSE,
              pass |-> [pass EXCEPT !.pc = "register", !.queue = built, !.scheduled = 0]]

\* ---- the App with location gating (scheduler.ts) ----
DEFAULT_LOCATION_RADIUS_METERS == 100

\* Positions are points of one meridian, in metres of arc, so that the
\* great-circle distance of two of them is the difference.
distanceInMeters(from, to) ==
    IF from.position >= to.position
    THEN from.position - to.position
    ELSE to.position - from.position

isWithinRadius_always(from, to, locationRadiusMeters) == TRUE

isWithinRadius(from, to, locationRadiusMeters) ==
    distanceInMeters(from, to) <= locationRadiusMeters

getLocationTarget(locations, locationId) ==
    IF locationId = null THEN <<>>
    ELSE LET found == SelectSeq(locations, LAMBDA location : location.id = locationId)
         IN  IF Len(found) = 0 THEN <<>> ELSE found[1]

\* An activation of the App with location gating: it carries the options
\* handed to scheduleIfEligible and the coords isScheduleLocationEligible
\* read.
newGatedPass(kind, schedule, quiet, eligibility) ==
    withField(withField(newPass(kind, schedule, quiet, "getAll"), "options", eligibility),
              "coords", <<>>)

IsGated(pass) == "options" \in DOMAIN pass

\* isScheduleLocationEligible up to its first await (or its return).
locationEligibility(pass) ==
    IF OrDefault(pass.schedule, "locationId", null) = null
    THEN scheduleNotificationsBatch(pass, [quietHours |-> pass.quietHours])
    ELSE IF getLocationTarget(settings.locations, pass.schedule.locationId) = <<>>
    THEN [done |-> TRUE, outcome |-> "skipped"]
    ELSE [done |-> FALSE, pass |-> [pass EXCEPT !.pc = "permissions"]]

afterCancelReturned(pass) ==
    IF InCleanup(pass) THEN [done |-> TRUE, outcome |-> "error"]
    ELSE IF pass.kind = "stop" THEN [done |-> TRUE, outcome |-> "stopped"]
    ELSE IF pass.kind = "remove" THEN [done |-> TRUE, outcome |-> "removed"]
    ELSE IF IsGated(pass) THEN locationEligibility(pass)
    ELSE scheduleNotificationsBatch(
             pass,
             [quietHours |-> pass.quietHours,
              horizonHours |-> eligibleHorizonHours(pass.schedule)])

\* cancelScheduleNotifications threw: ignored by the cleanup and by
\* removeSchedule, caught by the others.
afterCancelThrew(pass) ==
    IF InCleanup(pass) THEN [done |-> TRUE, outcome |-> "error"]
    ELSE IF pass.kind = "remove" THEN [done |-> TRUE, outcome |-> "ignored"]
    ELSE [done |-> TRUE, outcome |-> "threw"]

PassStep(k) ==
    /\ Mounted
    /\ k \in 1..Len(passes)

Rejection ==
    /\ failures < MaxFailures
    /\ failures' = failures + 1

\* requestPermissionsAsync of onStartSchedule resolves.
AuthorizationResolves(k, granted) ==
    /\ PassStep(k)
    /\ passes[k].pc = "auth"
    /\ IF granted
       THEN /\ Render(schedules, quietHours, FALSE, "authorized",
                      clearRescheduleTimer(timers, passes[k].id),
                      [passes EXCEPT ![k].pc = "getAll"])
            /\ UNCHANGED <<edits, lastOutcome>>
       ELSE Finish(k, "denied", "denied")
    /\ UNCHANGED <<draftSchedule, detailMode, isHydrated, budget, failures, removedIds,
                   pending, nextIdentifier>>
    /\ UNCHANGED callVars

\* getAllScheduledNotificationsAsync of the activation k resolves.
PassGetAllResolves(k) ==
    /\ PassStep(k)
    /\ passes[k].pc \in {"getAll", "cleanupGetAll"}
    /\ LET matches == matchesOf(pending, passes[k].id)
       IN  Advance(k,
               IF Len(matches) = 0
               THEN afterCancelReturned(passes[k])
               ELSE [done |-> FALSE,
                     pass |-> [passes[k] EXCEPT
                                  !.matches = [i \in 1..Len(matches) |-> matches[i].identifier],
                                  !.next = 1,
                                  !.pc = IF InCleanup(passes[k])
                                         THEN "cleanupCancel" ELSE "cancel"]])
    /\ UNCHANGED <<draftSchedule, detailMode, isHydrated, budget, failures, removedIds,
                   pending, nextIdentifier>>
    /\ UNCHANGED callVars

\* getAllScheduledNotificationsAsync of the activation k rejects.
PassGetAllRejects(k) ==
    /\ PassStep(k)
    /\ passes[k].pc \in {"getAll", "cleanupGetAll"}
    /\ Rejection
    /\ Advance(k, afterCancelThrew(passes[k]))
    /\ UNCHANGED <<draftSchedule, detailMode, isHydrated, budget, removedIds,
                   pending, nextIdentifier>>
    /\ UNCHANGED callVars

\* cancelScheduledNotificationAsync for the next match resolves.
PassCancelResolves(k) ==
    /\ PassStep(k)
    /\ passes[k].pc \in {"cancel", "cleanupCancel"}
    /\ pending' = afterCancel(pending, passes[k].matches[passes[k].next])
    /\ Advance(k,
           IF passes[k].next = Len(passes[k].matches)
           THEN afterCancelReturned(passes[k])
           ELSE [done |-> FALSE, pass |-> [passes[k] EXCEPT !.next = @ + 1]])
    /\ UNCHANGED <<draftSchedule, detailMode, isHydrated, budget, failures, removedIds,
                   nextIdentifier>>
    /\ UNCHANGED callVars

\* cancelScheduledNotificationAsync for the next match rejects.
PassCancelRejects(k) ==
    /\ PassStep(k)
    /\ passes[k].pc \in {"cancel", "cleanupCancel"}
    /\ Rejection
    /\ Advance(k, afterCancelThrew(passes[k]))
    /\ UNCHANGED <<draftSchedule, detailMode, isHydrated, budget, removedIds,
                   pending, nextIdentifier>>
    /\ UNCHANGED callVars

\* scheduleNotificationAsync for the next queue item resolves.
PassRegisterResolves(k) ==
    /\ PassStep(k)
    /\ passes[k].pc = "register"
    /\ pending' = afterSchedule(pending, nextIdentifier,
                                notificationRequest(nextItem(passes[k].queue,
                                                             passes[k].scheduled)))
    /\ nextIdentifier' = nextIdentifier + 1
    /\ Advance(k,
           IF passes[k].scheduled + 1 = Len(passes[k].queue)
           THEN [done |-> TRUE, outcome |-> "scheduled"]
           ELSE [done |-> FALSE, pass |-> [passes[k] EXCEPT !.scheduled = @ + 1]])
    /\ UNCHANGED <<draftSchedule, detailMode, isHydrated, budget, failures, removedIds>>
    /\ UNCHANGED callVars

\* scheduleNotificationAsync rejects: the catch block of scheduleBatch calls
\* cancelScheduleNotifications for the schedule.
PassRegisterRejects(k) ==
    /\ PassStep(k)
    /\ passes[k].pc = "register"
    /\ Rejection
    /\ Advance(k, [done |-> FALSE,
                   pass |-> [passes[k] EXCEPT !.pc = "cleanupGetAll",
                                              !.matches = <<>>, !.next = 1]])
    /\ UNCHANGED <<draftSchedule, detailMode, isHydrated, budget, removedIds,
                   pending, nextIdentifier>>
    /\ UNCHANGED callVars

\* checkLocationPermissions / requestLocationPermissions resolves.
PermissionsResolve(k, permissionsGranted) ==
    /\ PassStep(k)
    /\ passes[k].pc = "permissions"
    /\ Advance(k, IF permissionsGranted
                  THEN [done |-> FALSE, pass |-> [passes[k] EXCEPT !.pc = "coords"]]
                  ELSE [done |-> TRUE, outcome |-> "skipped"])
    /\ UNCHANGED <<draftSchedule, detailMode, isHydrated, budget, failures, removedIds,
                   pending, nextIdentifier>>
    /\ UNCHANGED callVars

\* A permission call of expo-location rejects: the exception leaves
\* scheduleIfEligible.
PermissionsReject(k) ==
    /\ PassStep(k)
    /\ passes[k].pc = "permissions"
    /\ Rejection
    /\ Advance(k, [done |-> TRUE, outcome |-> "threw"])
    /\ UNCHANGED <<draftSchedule, detailMode, isHydrated, budget, removedIds,
                   pending, nextIdentifier>>
    /\ UNCHANGED callVars

\* getCurrentCoords() resolves, with null when the position could not be
\* read.
CoordsResolve(k, coords) ==
    /\ PassStep(k)
    /\ passes[k].pc = "coords"
    /\ Advance(k,
           IF coords = <<>>
           THEN [done |-> TRUE, outcome |-> "skipped"]
           ELSE IF ~isWithinRadius(coords,
                                   getLocationTarget(settings.locations,
                                                     passes[k].schedule.locationId),
                                   settings.locationRadiusMeters)
           THEN [done |-> TRUE, outcome |-> "skipped"]
           ELSE scheduleNotificationsBatch([passes[k] EXCEPT !.coords = coords],
                                           [quietHours |-> passes[k].quietHours]))
    /\ UNCHANGED <<draftSchedule, detailMode, isHydrated, budget, failures, removedIds,
                   pending, nextIdentifier>>
    /\ UNCHANGED callVars

\* ---- hydration ----
\* The hydrate effect after `await loadSettings()`: stored schedules replace
\* the default one, the stored quiet hours the default ones.
HydrateSettings ==
    /\ pc = "hydrate"
    /\ LET stored == loadSettings(storage)
       IN  /\ schedules' =
                 IF stored # <<>> /\ Len(stored.schedules) > 0
                 THEN [i \in 1..Len(stored.schedules) |->
                          [stored.schedules[i] EXCEPT
                              !.message = IF @ = DEFAULT_MESSAGE THEN "" ELSE @]]
                 ELSE schedules
           /\ quietHours' = IF stored # <<>> THEN stored.quietHours ELSE DEFAULT_QUIET_HOURS
    /\ pc' = "refreshAuthorization"
    /\ UNCHANGED <<draftSchedule, detailMode, isHydrated, storage, authorizationStatus,
                   previousSchedules, timers, passes, budget, failures, removedIds,
                   edits, lastOutcome, pending, nextIdentifier>>
    /\ UNCHANGED <<input, walk, dates, targetSchedules, options, clock, queue, filtered, entry,
                   scheduled, error, tasks, calls, result, repeat, snapshot, event,
                   settings, sheet>>

\* refreshAuthorization() resolved and setIsHydrated(true): the effects run
\* for the first time (every active schedule is re-armed, the schedules are
\* remembered and saved).
HydrateAuthorization(status) ==
    /\ pc = "refreshAuthorization"
    /\ authorizationStatus' = status
    /\ isHydrated' = TRUE
    /\ passes' = passes \o quietHoursEffect(schedules, quietHours, status)
    /\ Len(passes') <= MaxPasses
    /\ timers' = editEffect(timers, schedules, previousSchedules, quietHours, status)
    /\ previousSchedules' = schedules
    /\ storage' = [schedules |-> schedules, quietHours |-> quietHours]
    /\ pc' = "app"
    /\ UNCHANGED <<schedules, quietHours, draftSchedule, detailMode, budget, failures,
                   removedIds, edits, lastOutcome, pending, nextIdentifier>>
    /\ UNCHANGED <<input, walk, dates, targetSchedules, options, clock, queue, filtered, entry,
                   scheduled, error, tasks, calls, result, repeat, snapshot, event,
                   settings, sheet>>

\* ------------------------------------------------------------------------
\* The App from mount: hydration from the stored settings, then the detail
\* sheet's edits.
\* ------------------------------------------------------------------------
\* A schedule as saveSettings wrote it.
Saved(id) == LateEvening(id)

\* The settings item: none, one without schedules, schedules this App saved,
\* schedules with a missing field or a short day mask, a schedule without a
\* day mask, and schedules whose numbers are outside the ranges the App
\* itself writes (an item written by another version or restored from a
\* backup).
StorageInputs ==
    { <<>>,
      [quietHours |-> NightQuiet],
      [schedules |-> <<Saved("s1"), [Saved("s2") EXCEPT !.message = DEFAULT_MESSAGE]>>,
       quietHours |-> [enabled |-> TRUE, startMinutesFromMidnight |-> 1500]],
      [schedules |-> << [id |-> "s1", message |-> ""],
                        [Saved("s2") EXCEPT !.daysOfWeek = <<TRUE, FALSE>>],
                        [f \in DOMAIN Saved("s3") \ {"daysOfWeek", "isActive"} |->
                            Saved("s3")[f]] >>],
      [schedules |-> << [Saved("s1") EXCEPT !.intervalMinutes = 500],
                        [Saved("s2") EXCEPT !.startMinutesFromMidnight = 1500,
                                            !.endMinutesFromMidnight = -30],
                        withField([Saved("s3") EXCEPT !.type = "monthly"],
                                  "dayOfMonth", 40) >>] }

InitSettings ==
    /\ input = <<>>
    /\ dates = <<>>
    /\ walk = <<>>
    /\ filtered = <<>>
    /\ queue = <<>>
    /\ targetSchedules = <<>>
    /\ options = <<>>
    /\ DispatchIdle
    /\ SingleCall
    /\ clock \in EligibleClocks
    /\ pc = "hydrate"
    /\ schedules = <<createSchedule("s0", "withinDay", clock)>>
    /\ draftSchedule = <<>>
    /\ detailMode = "null"
    /\ isHydrated = FALSE
    /\ storage \in StorageInputs
    /\ authorizationStatus = "unknown"
    /\ previousSchedules = <<>>
    /\ timers = NoTimers
    /\ passes = <<>>
    /\ budget = 0
    /\ failures = 0
    /\ removedIds = {}
    /\ edits = 0
    /\ lastOutcome = <<>>
    /\ sheet = <<>>

StoredIds == { "s0", "s1", "s2", "s3" }

NextSettings ==
    \/ HydrateSettings
    \/ \E status \in {"authorized", "denied", "unknown"} : HydrateAuthorization(status)
    \/ \E id \in StoredIds : OpenScheduleDetail(id)
    \/ AddSchedule("s4")
    \/ \E direction \in {-1, 1} : StepInterval(direction)
    \/ \E parsed \in {0, 7, 1000} : CommitIntervalDraft(parsed)
    \/ \E direction \in {-1, 1} : StepDayOfMonth(direction)
    \/ \E parsed \in {0, 31, 99} : CommitDayOfMonthDraft(parsed)
    \/ \E dayIndex \in {0, 6} : ToggleScheduleDay(dayIndex)
    \/ \E kind \in {"start", "end"}, minutes \in {0, 1439} : OnPickerChange(kind, minutes)
    \/ \E nextType \in {"withinDay", "weekly", "monthly"} : UpdateScheduleType(nextType)
    \/ SaveScheduleDetail
    \/ DiscardScheduleDetail

SpecSettings == InitSettings /\ [][NextSettings]_vars

\* ------------------------------------------------------------------------
\* The hydrated App: start, stop, removal, edits through the detail sheet,
\* quiet-hours changes, debounce timers and the activations they start.
\* ------------------------------------------------------------------------
\* A schedule with the fire times 21:00 and 23:00 of Monday; the night quiet
\* hours leave the first.
Reminder(id) == [LateEvening(id) EXCEPT !.intervalMinutes = 120]

AppIds == { "s1", "s2" }

\* The registrations a finished start of the active schedules left pending.
registrationsOf(list, quiet) ==
    LET active == SelectSeq(list, LAMBDA schedule : schedule.isActive)
        built == filterQuietHours(
                     buildQueue(active, [quietHours |-> quiet, horizonHours |-> 24 * 7],
                                TimeOfDay(8, 0, 0)),
                     quiet)
    IN  [i \in 1..Len(built) |->
            withField(notificationRequest(built[i]), "identifier", i)]

InitApp ==
    /\ input = <<>>
    /\ dates = <<>>
    /\ walk = <<>>
    /\ filtered = <<>>
    /\ queue = <<>>
    /\ targetSchedules = <<>>
    /\ options = <<>>
    /\ entry = <<>>
    /\ scheduled = 0
    /\ error = <<>>
    /\ tasks = <<>>
    /\ calls = <<>>
    /\ result = <<>>
    /\ SingleCall
    /\ clock \in EligibleClocks
    /\ pc = "app"
    /\ isHydrated = TRUE
    /\ quietHours = DEFAULT_QUIET_HOURS
    /\ \E active1, active2 \in BOOLEAN, status \in {"authorized", "denied"} :
          /\ (status = "denied") => (~active1 /\ ~active2)
          /\ authorizationStatus = status
          /\ schedules = << [Reminder("s1") EXCEPT !.isActive = active1],
                            [Reminder("s2") EXCEPT !.isActive = active2] >>
    /\ pending = registrationsOf(schedules, quietHours)
    /\ nextIdentifier = Len(pending) + 1
    /\ draftSchedule = <<>>
    /\ detailMode = "null"
    /\ storage = [schedules |-> schedules, quietHours |-> quietHours]
    /\ previousSchedules = schedules
    /\ timers = NoTimers
    /\ passes = <<>>
    /\ budget = 0
    /\ failures = 0
    /\ removedIds = {}
    /\ edits = 0
    /\ lastOutcome = <<>>
    /\ sheet = <<>>

NextApp ==
    \/ \E id \in AppIds : OnStartSchedule(id)
    \/ \E id \in AppIds : OnStopSchedule(id)
    \/ \E id \in AppIds : RemoveSchedule(id)
    \/ UpdateQuietHours(~quietHours.enabled)
    \/ \E id \in AppIds : OpenScheduleDetail(id)
    \/ \E parsed \in {120, 180} : CommitIntervalDraft(parsed)
    \/ SaveScheduleDetail
    \/ \E id \in AppIds : TimerFires(id)
    \/ \E k \in 1..Len(passes), granted \in BOOLEAN : AuthorizationResolves(k, granted)
    \/ \E k \in 1..Len(passes) : PassGetAllResolves(k)
    \/ \E k \in 1..Len(passes) : PassGetAllRejects(k)
    \/ \E k \in 1..Len(passes) : PassCancelResolves(k)
    \/ \E k \in 1..Len(passes) : PassCancelRejects(k)
    \/ \E k \in 1..Len(passes) : PassRegisterResolves(k)
    \/ \E k \in 1..Len(passes) : PassRegisterRejects(k)

SpecApp == InitApp /\ [][NextApp]_vars

\* The hydrated App with an armed schedule, under edits through the detail
\* sheet and quiet-hours changes only, every notifier call succeeding.
InitEdits ==
    /\ InitApp
    /\ schedules[1].isActive

NextEdits ==
    \/ UpdateQuietHours(~quietHours.enabled)
    \/ \E id \in AppIds : OpenScheduleDetail(id)
    \/ \E parsed \in {120, 180} : CommitIntervalDraft(parsed)
    \/ \E value \in {"", "stretch"} : UpdateMessage(value)
    \/ SaveScheduleDetail
    \/ \E id \in AppIds : TimerFires(id)
    \/ \E k \in 1..Len(passes) : PassGetAllResolves(k)
    \/ \E k \in 1..Len(passes) : PassCancelResolves(k)
    \/ \E k \in 1..Len(passes) : PassRegisterResolves(k)

SpecEdits == InitEdits /\ [][NextEdits]_vars

\* The App with location gating, an activation of onStartSchedule or of
\* rescheduleSchedule at its first await.
Place(id, position) == [id |-> id, name |-> id, position |-> position]
GatePositions == { 0, 100, 101 }
GateLocationIds == { null, "home", "gym" }
GateLocations == { <<>>, <<Place("home", 0)>> }

Gated(id, locationId) == withField(Reminder(id), "locationId", locationId)

InitGate ==
    /\ input = <<>>
    /\ dates = <<>>
    /\ walk = <<>>
    /\ filtered = <<>>
    /\ queue = <<>>
    /\ targetSchedules = <<>>
    /\ options = <<>>
    /\ entry = <<>>
    /\ scheduled = 0
    /\ error = <<>>
    /\ tasks = <<>>
    /\ calls = <<>>
    /\ result = <<>>
    /\ repeat = 1
    /\ snapshot = <<>>
    /\ event = <<>>
    /\ clock \in EligibleClocks
    /\ pc = "app"
    /\ isHydrated = TRUE
    /\ authorizationStatus = "authorized"
    /\ quietHours \in {DEFAULT_QUIET_HOURS, NightQuiet}
    /\ \E locations \in GateLocations :
          settings = [locations |-> locations,
                      locationRadiusMeters |-> DEFAULT_LOCATION_RADIUS_METERS]
    /\ \E locationId \in GateLocationIds, kind \in {"start", "rearm"}, armed \in BOOLEAN :
          /\ schedules = << [Gated("s1", locationId) EXCEPT !.isActive = TRUE] >>
          /\ pending = IF armed THEN registrationsOf(schedules, quietHours) ELSE <<>>
          /\ passes = << newGatedPass(kind, schedules[1], quietHours,
                                      IF kind = "start"
                                      THEN [requestPermissions |-> locationId # null]
                                      ELSE [silent |-> TRUE]) >>
    /\ nextIdentifier = Len(pending) + 1
    /\ draftSchedule = <<>>
    /\ detailMode = "null"
    /\ storage = [schedules |-> schedules, quietHours |-> quietHours]
    /\ previousSchedules = schedules
    /\ timers = NoTimers
    /\ budget = 0
    /\ failures = 0
    /\ removedIds = {}
    /\ edits = 0
    /\ lastOutcome = <<>>
    /\ sheet = <<>>

NextGate ==
    \/ \E k \in 1..Len(passes) : PassGetAllResolves(k)
    \/ \E k \in 1..Len(passes) : PassGetAllRejects(k)
    \/ \E k \in 1..Len(passes) : PassCancelResolves(k)
    \/ \E k \in 1..Len(passes) : PassCancelRejects(k)
    \/ \E k \in 1..Len(passes), permissionsGranted \in BOOLEAN :
          PermissionsResolve(k, permissionsGranted)
    \/ \E k \in 1..Len(passes) : PermissionsReject(k)
    \/ \E k \in 1..Len(passes),
          coords \in {<<>>} \cup { [position |-> p] : p \in GatePositions } :
          CoordsResolve(k, coords)
    \/ \E k \in 1..Len(passes) : PassRegisterResolves(k)
    \/ \E k \in 1..Len(passes) : PassRegisterRejects(k)

SpecGate == InitGate /\ [][NextGate]_vars

\* ------------------------------------------------------------------------
\* Vocabulary of the properties.  These are stated on the calendar directly,
\* not through the helpers of the program.
\* ------------------------------------------------------------------------
Range(seq) == { seq[i] : i \in 1..Len(seq) }

MinuteOfDay(t) == (t % SecondsPerDay) \div SecondsPerMinute

\* 0 = Monday ... 6 = Sunday (day 0 of the time line is a Monday).
MondayFirstIndex(t) == (t \div SecondsPerDay) % 7

\* The rule of the call under study, as the contract reads it.
Now == input.now
HorizonEnd == input.now + input.horizonHours * SecondsPerHour
Cap == IF "maxCount" \in DOMAIN input THEN input.maxCount ELSE DEFAULT_MAX_COUNT
Finite(v) == v # NaN /\ v # Infinity /\ v # NegativeInfinity
MinutesAsRead(v) == IF Finite(v) THEN v % MinutesPerDay ELSE 0
WindowStartMin == MinutesAsRead(input.startMinutesFromMidnight)
WindowEndMin == MinutesAsRead(input.endMinutesFromMidnight)
Step == IF ~Finite(input.intervalMinutes) THEN MIN_INTERVAL
        ELSE IF input.intervalMinutes < MIN_INTERVAL THEN MIN_INTERVAL
        ELSE IF input.intervalMinutes > MAX_INTERVAL THEN MAX_INTERVAL
        ELSE input.intervalMinutes
Mask == IF Len(input.daysOfWeek) = 7 THEN input.daysOfWeek ELSE AllDays
OnActiveDay(t) == Mask[MondayFirstIndex(t) + 1]
InWindow(m) ==
    IF WindowStartMin < WindowEndMin
    THEN WindowStartMin <= m /\ m < WindowEndMin
    ELSE m >= WindowStartMin \/ m < WindowEndMin

Expanded == pc = "expanded"
PrimaryEmpty == Len(primaryResults(input)) = 0

\* C1: the sequence returned by generateFireDates is strictly increasing in
\* time, on the window-walk and on the fallback path alike.
C1_StrictlyIncreasing ==
    Expanded => \A i \in 1..(Len(dates) - 1) : dates[i] < dates[i + 1]

\* A window-walk over a midnight-crossing window that returned several instants.
C1_Witness ==
    /\ Expanded
    /\ WindowEndMin < WindowStartMin
    /\ ~PrimaryEmpty
    /\ Len(dates) >= 3

\* C2: every returned instant t satisfies now < t <= now + horizonHours, on
\* the window-walk and on the fallback path alike.
C2_WithinHorizon ==
    Expanded => \A i \in 1..Len(dates) : Now < dates[i] /\ dates[i] <= HorizonEnd

\* An expansion whose last instant lies exactly on the horizon.
C2_Witness ==
    /\ Expanded
    /\ Len(dates) >= 2
    /\ dates[Len(dates)] = HorizonEnd

\* C3: when windowStart # windowEnd, the minute-of-day of every returned
\* instant lies in [windowStart, windowEnd), or, for a window that crosses
\* midnight, is >= windowStart or < windowEnd.
C3_WindowContainment ==
    (Expanded /\ WindowStartMin # WindowEndMin)
        => \A i \in 1..Len(dates) : InWindow(MinuteOfDay(dates[i]))

\* A midnight-crossing window with instants returned on both sides of midnight.
C3_Witness ==
    /\ Expanded
    /\ WindowEndMin < WindowStartMin
    /\ \E i \in 1..Len(dates) : MinuteOfDay(dates[i]) >= WindowStartMin
    /\ \E i \in 1..Len(dates) : MinuteOfDay(dates[i]) < WindowEndMin

\* C4: every returned instant falls on a calendar day whose Monday-first mask
\* entry is true; an instant after midnight of a midnight-crossing window is
\* judged by its own calendar day, not by the day the window started on.
C4_DayMaskRespected ==
    Expanded => \A i \in 1..Len(dates) : OnActiveDay(dates[i])

\* An instant after midnight (Tuesday) of a window that started on an
\* inactive Monday, returned because Tuesday is active.
C4_Witness ==
    /\ Expanded
    /\ WindowEndMin < WindowStartMin
    /\ \E i \in 1..Len(dates) :
          /\ MinuteOfDay(dates[i]) < WindowEndMin
          /\ ~OnActiveDay(dates[i] - SecondsPerDay)

Queued == pc = "queued"
QueueCap == IF "maxCount" \in DOMAIN options THEN options.maxCount ELSE DEFAULT_MAX_COUNT
QueueHorizonEnd ==
    clock + SecondsPerHour * (IF "horizonHours" \in DOMAIN options
                              THEN options.horizonHours ELSE QUEUE_HORIZON_HOURS)

\* C5: the result of generateFireDates is never longer than maxCount, and the
\* result of buildNotificationQueue is never longer than maxCount, however
\* many schedules are merged.
C5_CapRespected ==
    /\ Expanded => Len(dates) <= Cap
    /\ Queued => Len(queue) <= QueueCap

\* Two schedules merged, each of which alone already fills the cap.
C5_Witness ==
    /\ Queued
    /\ Len(targetSchedules) >= 2
    /\ QueueCap >= 1
    /\ Len(queue) = QueueCap
    /\ \A i \in 1..Len(targetSchedules) :
          Cardinality({ k \in 1..Len(queue) : queue[k].scheduleId = targetSchedules[i].id }) >= 1

\* The same rule expanded without a cap.
Uncapped == generateFireDates(withField(input, "maxCount", NoCap))

\* C6: the capped result is the prefix of the uncapped one: when the uncapped
\* expansion holds at least maxCount instants, exactly the earliest maxCount
\* of them are returned, otherwise all of them.
C6_CappedIsPrefix ==
    Expanded =>
        LET uncapped == Uncapped
        IN  /\ Len(dates) = (IF Len(uncapped) >= Cap THEN Cap ELSE Len(uncapped))
            /\ \A i \in 1..Len(dates) : dates[i] = uncapped[i]

\* A cap that cuts: the uncapped expansion is longer than maxCount >= 1.
C6_Witness ==
    /\ Expanded
    /\ Cap >= 2
    /\ Len(Uncapped) > Cap
    /\ Len(dates) = Cap

\* The ticks S + k*interval of the daily occurrences [S, E) of the window
\* that lie in (now, now + horizon] on an active day.
WindowTickSet ==
    LET firstDay == (Now \div SecondsPerDay) - 1
        lastDay == HorizonEnd \div SecondsPerDay
        S(d) == d * SecondsPerDay + WindowStartMin * SecondsPerMinute
        E(d) == d * SecondsPerDay + WindowEndMin * SecondsPerMinute
                + (IF WindowEndMin < WindowStartMin THEN SecondsPerDay ELSE 0)
        all == { S(d[1]) + d[2] * Step * SecondsPerMinute :
                    d \in { <<day, k>> \in (firstDay..lastDay) \X (0..(MinutesPerDay \div Step)) :
                              S(day) + k * Step * SecondsPerMinute < E(day) } }
    IN  { t \in all : Now < t /\ t <= HorizonEnd /\ OnActiveDay(t) }

\* C7 (as claimed): with windowStart # windowEnd and the cap not reached, a
\* non-empty window-walk returns exactly the ticks S + k*interval of the
\* window occurrences within (now, now + horizon] on active days.
C7_ExactWindowTicks ==
    (Expanded /\ WindowStartMin # WindowEndMin /\ Len(dates) < Cap /\ ~PrimaryEmpty)
        => Range(dates) = WindowTickSet

\* The minutes (counted from the start of day 0) of the ticks anchored at each
\* day's midnight: minute-of-day a multiple of the interval.
MidnightTickMinutes ==
    LET firstDay == Now \div SecondsPerDay
        lastDay == HorizonEnd \div SecondsPerDay
    IN  { d * MinutesPerDay + k * Step :
             d \in firstDay..lastDay, k \in 0..((MinutesPerDay - 1) \div Step) }

\* C8 (as claimed): with windowStart = windowEnd and the cap not reached, the
\* result is exactly the midnight-anchored ticks in (now, now + horizon] on
\* active days: every returned instant has a minute-of-day that is a multiple
\* of the interval, and no such tick is left out.
C8_ExactAllDayTicks ==
    (Expanded /\ WindowStartMin = WindowEndMin /\ Len(dates) < Cap)
        => /\ \A i \in 1..Len(dates) : MinuteOfDay(dates[i]) % Step = 0
           /\ \A m \in MidnightTickMinutes :
                 LET t == m * SecondsPerMinute
                 IN  (Now < t /\ t <= HorizonEnd /\ OnActiveDay(t))
                        => \E i \in 1..Len(dates) : dates[i] \div SecondsPerMinute = m

\* The instants now + k*interval (k >= 1), seconds truncated to the minute,
\* up to the horizon, inside the window (anywhere when all day), on an
\* active day.
FallbackSet ==
    LET base == (Now \div SecondsPerMinute) * SecondsPerMinute
        kMax == (input.horizonHours * 60) \div Step
        all == { base + k * Step * SecondsPerMinute : k \in 1..kMax }
    IN  { t \in all : /\ t <= HorizonEnd
                      /\ WindowStartMin = WindowEndMin \/ InWindow(MinuteOfDay(t))
                      /\ OnActiveDay(t) }

\* C9: when the window-walk collects nothing and some day is active, the
\* result is the fallback walk: the earliest maxCount instants of FallbackSet
\* in increasing order; when the window-walk collects something, the result
\* is what it collected and the fallback adds nothing.
C9_FallbackExact ==
    Expanded =>
        IF PrimaryEmpty /\ (\E d \in 1..7 : Mask[d])
        THEN LET claimed == FallbackSet
             IN  /\ Range(dates) \subseteq claimed
                 /\ Len(dates) = (IF Cardinality(claimed) >= Cap THEN Cap
                                  ELSE Cardinality(claimed))
                 /\ \A i \in 1..(Len(dates) - 1) : dates[i] < dates[i + 1]
                 /\ \A t \in claimed \ Range(dates) : \A i \in 1..Len(dates) : dates[i] < t
        ELSE dates = primaryResults(input)

\* The fallback path taken from a `now` that is not on a whole minute.
C9_Witness ==
    /\ Expanded
    /\ PrimaryEmpty
    /\ Len(dates) >= 1
    /\ Now % SecondsPerMinute # 0

\* C10 (as claimed): for a daily schedule (windowStart = windowEnd = T) the
\* queue built for dispatch holds one instant per active calendar day, at
\* minute-of-day T, whatever the interval.
C10_DailyOncePerDay ==
    (Queued /\ Len(targetSchedules) = 1 /\ targetSchedules[1].type = "daily")
        => /\ \A k \in 1..Len(queue) :
                 MinuteOfDay(queue[k].date) = targetSchedules[1].startMinutesFromMidnight
           /\ \A k \in 1..Len(queue) : \A l \in 1..Len(queue) :
                 (k # l) => (queue[k].date \div SecondsPerDay # queue[l].date \div SecondsPerDay)

\* C12 (as claimed): generateFireDates returns an empty result whenever the
\* daysOfWeek mask is all-false or empty.
C12_EmptyOrAllFalseMask ==
    (Expanded /\ (Len(input.daysOfWeek) = 0
                  \/ \A d \in 1..Len(input.daysOfWeek) : ~input.daysOfWeek[d]))
        => dates = <<>>

\* C12 (amended): a mask of seven entries, all false, gives an empty result
\* (no window-walk, no fallback); a mask whose length is not seven, the empty
\* one included, is replaced by the all-days mask and expands accordingly.
C12_AllFalseMaskNeverFires ==
    Expanded =>
        /\ (Len(input.daysOfWeek) = 7 /\ \A d \in 1..7 : ~input.daysOfWeek[d])
              => dates = <<>>
        /\ Len(input.daysOfWeek) # 7
              => dates = generateFireDates([input EXCEPT !.daysOfWeek = AllDays])

\* An all-false mask on a rule that fires when every day is active.
C12_Witness ==
    /\ Expanded
    /\ input.daysOfWeek = NoDays
    /\ dates = <<>>
    /\ generateFireDates([input EXCEPT !.daysOfWeek = AllDays]) # <<>>

\* Position in the input list of the schedule with this id.
ScheduleIndex(id) ==
    CHOOSE i \in 1..Len(targetSchedules) : targetSchedules[i].id = id

\* C13: the queue returned by buildNotificationQueue is sorted by fire time
\* ascending, and entries with equal fire times appear in the order of their
\* owning schedules in the input.
C13_SortedStable ==
    Queued =>
        \A k \in 1..(Len(queue) - 1) :
            /\ queue[k].date <= queue[k + 1].date
            /\ queue[k].date = queue[k + 1].date
                  => ScheduleIndex(queue[k].scheduleId) < ScheduleIndex(queue[k + 1].scheduleId)

\* A queue with two entries at the same instant, and with an entry of the
\* second schedule ahead of an entry of the first.
C13_Witness ==
    /\ Queued
    /\ \E k \in 1..(Len(queue) - 1) : queue[k].date = queue[k + 1].date
    /\ \E k \in 1..(Len(queue) - 1) :
          ScheduleIndex(queue[k].scheduleId) > ScheduleIndex(queue[k + 1].scheduleId)

\* The expansion of the i-th schedule of the queue call under study.
Expansion(i) ==
    generateFireDates(
        [now |-> clock,
         intervalMinutes |-> targetSchedules[i].intervalMinutes,
         startMinutesFromMidnight |-> targetSchedules[i].startMinutesFromMidnight,
         endMinutesFromMidnight |-> targetSchedules[i].endMinutesFromMidnight,
         daysOfWeek |-> targetSchedules[i].daysOfWeek,
         maxCount |-> QueueCap,
         horizonHours |-> (QueueHorizonEnd - clock) \div SecondsPerHour])

HasEntry(id, date) ==
    \E k \in 1..Len(queue) : queue[k].scheduleId = id /\ queue[k].date = date

\* C14: the queue is the first maxCount entries of the time-sorted
\* concatenation of the per-schedule expansions: every entry carries the id
\* and message of a schedule whose expansion holds its date, no entry occurs
\* twice, the length is the smaller of maxCount and the number of expanded
\* instants, and every expanded instant left out is no earlier than any
\* entry kept.
C14_QueueIsSortedPrefix ==
    Queued =>
        LET n == Len(targetSchedules)
            exp == [i \in 1..n |-> Expansion(i)]
            total == Cardinality({ p \in (1..n) \X (1..QueueCap) : p[2] <= Len(exp[p[1]]) })
        IN  /\ Len(queue) = (IF total < QueueCap THEN total ELSE QueueCap)
            /\ \A k \in 1..Len(queue) :
                  \E i \in 1..n :
                      /\ queue[k].scheduleId = targetSchedules[i].id
                      /\ queue[k].message = targetSchedules[i].message
                      /\ queue[k].date \in Range(exp[i])
            /\ \A k \in 1..Len(queue) : \A l \in 1..Len(queue) :
                  (k # l) => ~(queue[k].scheduleId = queue[l].scheduleId
                               /\ queue[k].date = queue[l].date)
            /\ \A i \in 1..n : \A d \in Range(exp[i]) :
                  ~HasEntry(targetSchedules[i].id, d)
                      => \A k \in 1..Len(queue) : queue[k].date <= d

\* Two schedules with different messages, both present in a queue that the
\* cap cut short.
C14_Witness ==
    /\ Queued
    /\ Len(targetSchedules) = 2
    /\ targetSchedules[1].message # targetSchedules[2].message
    /\ \A i \in 1..2 : \E k \in 1..Len(queue) : queue[k].scheduleId = targetSchedules[i].id
    /\ Len(queue) = QueueCap
    /\ Len(Expansion(1)) + Len(Expansion(2)) > QueueCap

Filtered == pc = "filtered"
QuietGiven == "quietHours" \in DOMAIN options
QuietStart == options.quietHours.startMinutesFromMidnight
QuietEnd == options.quietHours.endMinutesFromMidnight

\* The minute-of-day m lies in the quiet span.
InQuietSpan(m) ==
    IF QuietStart < QuietEnd
    THEN QuietStart <= m /\ m < QuietEnd
    ELSE m >= QuietStart \/ m < QuietEnd

\* C15: filterQuietHours returns the queue unchanged when quiet hours are
\* absent, disabled, or have start = end; otherwise it keeps, in their
\* original order, exactly the entries whose minute-of-day m is outside the
\* span: removed iff start <= m < end when start < end, and removed iff
\* m >= start or m < end when end < start.
C15_QuietHoursFilter ==
    Filtered =>
        IF ~QuietGiven THEN filtered = queue
        ELSE IF ~options.quietHours.enabled \/ QuietStart = QuietEnd THEN filtered = queue
        ELSE filtered = SelectSeq(queue, LAMBDA e : ~InQuietSpan(MinuteOfDay(e.date)))

\* A span over midnight applied to a queue with an entry at its start
\* (removed) and an entry at its end (kept).
C15_Witness ==
    /\ Filtered
    /\ QuietGiven
    /\ options.quietHours.enabled
    /\ QuietEnd < QuietStart
    /\ Len(queue) = 2
    /\ MinuteOfDay(queue[1].date) = QuietEnd
    /\ MinuteOfDay(queue[2].date) = QuietStart
    /\ filtered = <<queue[1]>>

\* ------------------------------------------------------------------------
\* Vocabulary of the dispatch properties
\* ------------------------------------------------------------------------
DispatchCall == IF entry = <<>> THEN "" ELSE entry.call
BatchReturned == pc = "returned" /\ DispatchCall = "scheduleBatch"
CancelReturned == pc = "returned" /\ DispatchCall = "cancelScheduleNotifications"

\* The notifier's view: the registration calls it received, in order.
RegistrationCalls == SelectSeq(calls, LAMBDA c : c.op = "schedule")
AllCallsOk == \A i \in 1..Len(calls) : calls[i].ok
FailedRegistration == \E i \in 1..Len(calls) : calls[i].op = "schedule" /\ ~calls[i].ok
CleanupOk == \A i \in 1..Len(calls) : calls[i].op \in {"getAll", "cancel"} => calls[i].ok
BatchIds == { targetSchedules[k].id : k \in 1..Len(targetSchedules) }
NoBatchRegistrationPending ==
    \A i \in 1..Len(pending) : pending[i].scheduleId \notin BatchIds

\* The calendar of the time line: the first days of January .. May 2024.
MonthStarts == <<0, 31, 60, 91, 121>>
MonthOf(t) ==
    CHOOSE m \in 1..4 : /\ MonthStarts[m] <= t \div SecondsPerDay
                        /\ t \div SecondsPerDay < MonthStarts[m + 1]
DayOfMonth(t) == (t \div SecondsPerDay) - MonthStarts[MonthOf(t)] + 1

\* C11 (as claimed): for a monthly schedule dispatched by scheduleIfEligible,
\* every registration is on the configured dayOfMonth at the configured
\* time, and no two registrations fall into the same month.
C11_MonthlyOncePerMonth ==
    (DispatchCall = "scheduleIfEligible" /\ entry.schedule.type = "monthly")
        => LET regs == RegistrationCalls
           IN  \A i \in 1..Len(regs) :
                  /\ DayOfMonth(regs[i].request.date) = entry.schedule.dayOfMonth
                  /\ MinuteOfDay(regs[i].request.date)
                        = entry.schedule.startMinutesFromMidnight
                  /\ \A j \in 1..Len(regs) :
                        (i # j) => MonthOf(regs[i].request.date) # MonthOf(regs[j].request.date)

\* C16: when every notifier call succeeds, scheduleBatch issues exactly one
\* registration per entry of the filtered queue, in queue order, each with the
\* entry's fire time and tagged with the entry's scheduleId, makes no other
\* notifier call, leaves these registrations pending, and returns their number.
C16_OneRegistrationPerEntry ==
    (BatchReturned /\ AllCallsOk) =>
        /\ calls = RegistrationCalls
        /\ Len(calls) = Len(queue)
        /\ \A i \in 1..Len(queue) :
              /\ calls[i].request.date = queue[i].date
              /\ calls[i].request.scheduleId = queue[i].scheduleId
        /\ Len(pending) >= Len(queue)
        /\ \A i \in 1..Len(queue) :
              LET registration == pending[Len(pending) - Len(queue) + i]
              IN  /\ registration.date = queue[i].date
                  /\ registration.scheduleId = queue[i].scheduleId
        /\ result = [count |-> Len(queue)]

\* Three registrations for two schedules, added to registrations that were
\* pending before.
C16_Witness ==
    /\ BatchReturned
    /\ AllCallsOk
    /\ Len(queue) = 3
    /\ \E i \in 1..3 : queue[i].scheduleId # queue[1].scheduleId
    /\ Len(pending) = 6

\* C17: when a registration call failed, scheduleBatch returns count 0 with
\* the message of the failing call's error (the default text when the error
\* has none); when the cleanup calls succeeded, no registration tagged with
\* the id of a schedule of the batch is pending; when a cleanup call failed
\* as well, the result is the same.
C17_RollbackOnFailure ==
    (BatchReturned /\ FailedRegistration) =>
        /\ DOMAIN result = {"count", "error"}
        /\ result.count = 0
        /\ result.error = (IF error.isError /\ error.message # ""
                           THEN error.message ELSE "Please try again.")
        /\ CleanupOk => NoBatchRegistrationPending

\* Two registrations made, the third failed, the cleanup went through: the
\* two and the ones pending before for the same schedule are gone, the one
\* of a schedule outside the batch is still pending.
C17_Witness ==
    /\ BatchReturned
    /\ FailedRegistration
    /\ CleanupOk
    /\ scheduled = 2
    /\ result.error = "quota exceeded"
    /\ Len(pending) = 1
    /\ pending[1].scheduleId = "s9"

\* C18 (as claimed): in a batch of several schedules, when a registration of
\* the k-th schedule fails, no registration is ever attempted for a schedule
\* after the k-th, what was registered is rolled back and the result is
\* count 0 with the error.
C18_LaterSchedulesNeverAttempted ==
    (DispatchCall = "scheduleBatch" /\ Len(targetSchedules) >= 2) =>
        /\ \A i \in 1..Len(calls) :
              (calls[i].op = "schedule" /\ ~calls[i].ok)
                 => \A j \in 1..Len(calls) :
                       calls[j].op = "schedule"
                          => ScheduleIndex(calls[j].request.scheduleId)
                                <= ScheduleIndex(calls[i].request.scheduleId)
        /\ (BatchReturned /\ FailedRegistration)
              => /\ result.count = 0
                 /\ "error" \in DOMAIN result
                 /\ CleanupOk => NoBatchRegistrationPending

\* C18 (amended): the queue is registered in fire-time order: the
\* registrations attempted are a prefix of the queue, only the last of them
\* can have failed (nothing is attempted after a failure), and after a
\* failure the result is count 0 with the error and, the cleanup calls
\* succeeding, no registration of any schedule of the batch is pending.
C18_NothingAfterTheFailure ==
    (DispatchCall = "scheduleBatch") =>
        LET regs == RegistrationCalls
        IN  /\ Len(regs) <= Len(queue)
            /\ \A i \in 1..Len(regs) :
                  /\ regs[i].request.date = queue[i].date
                  /\ regs[i].request.scheduleId = queue[i].scheduleId
                  /\ i < Len(regs) => regs[i].ok
            /\ (BatchReturned /\ FailedRegistration)
                  => /\ result.count = 0
                     /\ "error" \in DOMAIN result
                     /\ CleanupOk => NoBatchRegistrationPending

\* Three schedules; the registration that failed belongs to the second, one
\* of the third had been made before it, and everything was rolled back.
C18_Witness ==
    /\ BatchReturned
    /\ Len(targetSchedules) = 3
    /\ CleanupOk
    /\ LET regs == RegistrationCalls
       IN  /\ Len(regs) >= 2
           /\ ~regs[Len(regs)].ok
           /\ regs[Len(regs)].request.scheduleId = targetSchedules[2].id
           /\ \E i \in 1..(Len(regs) - 1) : regs[i].request.scheduleId = targetSchedules[3].id
    /\ NoBatchRegistrationPending

\* C19: scheduleBatch returns count 0 without an error field exactly when the
\* filtered queue is empty, and then it has made no notifier call; a result
\* with an error field occurs only when a registration call failed.
C19_EmptyQueueResult ==
    BatchReturned =>
        /\ (result = [count |-> 0]) <=> (queue = <<>>)
        /\ (queue = <<>>) => (calls = <<>>)
        /\ ("error" \in DOMAIN result) => FailedRegistration

\* A queue that the quiet hours emptied, with registrations pending before.
C19_Witness ==
    /\ BatchReturned
    /\ queue = <<>>
    /\ buildQueue(targetSchedules, options, clock) # <<>>
    /\ result = [count |-> 0]
    /\ pending # <<>>

\* C20: when its notifier calls succeed (and nothing registers meanwhile),
\* cancelScheduleNotifications(id) cancels every registration listed with the
\* tag id, leaves the others as they were, and returns the number cancelled.
C20_CancelByTag ==
    (CancelReturned /\ AllCallsOk) =>
        LET listed == calls[1].answer
        IN  /\ \A i \in 1..Len(pending) : pending[i].scheduleId # entry.scheduleId
            /\ pending = SelectSeq(listed, LAMBDA r : r.scheduleId # entry.scheduleId)
            /\ result = Cardinality({ i \in 1..Len(listed) :
                                        listed[i].scheduleId = entry.scheduleId })

\* Two registrations cancelled, the one with another tag left.
C20_Witness ==
    /\ CancelReturned
    /\ result = 2
    /\ Len(pending) = 1
    /\ pending[1].scheduleId # entry.scheduleId

\* C27: the registration calls of scheduleBatch are issued one at a time in
\* queue order: the calls answered so far are those of the first entries of
\* the queue, in order; while a call is outstanding every earlier one has
\* resolved and the outstanding one is that of the next entry; and once a
\* call has failed it is the last one: no registration call is outstanding
\* or issued afterwards.
C27_OneAtATimeInQueueOrder ==
    (pc \in {"register", "cleanup", "returned"}
        /\ DispatchCall \in {"scheduleBatch", "scheduleIfEligible"}) =>
        LET regs == RegistrationCalls
        IN  /\ Len(regs) <= Len(queue)
            /\ \A i \in 1..Len(regs) :
                  /\ regs[i].request.date = queue[i].date
                  /\ regs[i].request.scheduleId = queue[i].scheduleId
            /\ \A i \in 1..(Len(regs) - 1) : regs[i].request.date <= regs[i + 1].request.date
            /\ (pc = "register")
                  => /\ \A i \in 1..Len(regs) : regs[i].ok
                     /\ scheduled = Len(regs)
                     /\ Len(regs) < Len(queue)
            /\ FailedRegistration
                  => /\ pc # "register"
                     /\ ~regs[Len(regs)].ok
                     /\ \A i \in 1..(Len(regs) - 1) : regs[i].ok
                     /\ scheduled = Len(regs) - 1

\* Two calls resolved, the third failed, and the rest of a longer queue was
\* never issued.
C27_Witness ==
    /\ DispatchCall = "scheduleIfEligible"
    /\ pc = "returned"
    /\ Len(RegistrationCalls) = 3
    /\ ~RegistrationCalls[3].ok
    /\ Len(queue) > 3

\* The registrations of a list as <<tag, fire time>> pairs.
TaggedTimes(registrations) ==
    { <<registrations[i].scheduleId, registrations[i].date>> : i \in 1..Len(registrations) }
NoFireTimeTwice(registrations) ==
    \A i, j \in 1..Len(registrations) :
        (registrations[i].scheduleId = registrations[j].scheduleId
            /\ registrations[i].date = registrations[j].date) => i = j
CalledTwice == pc = "returned" /\ repeat = 2
RearmedId == entry.schedule.id

\* C21 (as claimed): after the dispatch function (scheduleBatch, or
\* scheduleIfEligible around it) was called twice in a row for the same
\* schedule with every notifier call succeeding, the pending registrations
\* are those pending after the first call, and no fire time of the schedule
\* is registered twice.
C21_TwiceSameAsOnce ==
    (CalledTwice /\ AllCallsOk) =>
        /\ TaggedTimes(pending) = TaggedTimes(snapshot)
        /\ Len(pending) = Len(snapshot)
        /\ NoFireTimeTwice(pending)

\* C21 (amended): the same, for scheduleIfEligible, which cancels the
\* registrations tagged with the schedule id before it calls scheduleBatch.
C21_RearmTwiceSameAsOnce ==
    (CalledTwice /\ AllCallsOk /\ DispatchCall = "scheduleIfEligible") =>
        /\ TaggedTimes(pending) = TaggedTimes(snapshot)
        /\ Len(pending) = Len(snapshot)
        /\ NoFireTimeTwice(pending)
        /\ \A i \in 1..Len(pending) :
              pending[i].scheduleId = RearmedId
                 => \E k \in 1..Len(queue) : queue[k].date = pending[i].date

\* scheduleIfEligible called twice: three registrations of the schedule and
\* the one of another schedule are pending, the ones registered by the first
\* call having been cancelled by the second.
C21_Witness ==
    /\ CalledTwice
    /\ AllCallsOk
    /\ DispatchCall = "scheduleIfEligible"
    /\ Len(queue) = 3
    /\ Len(pending) = 4
    /\ \E i \in 1..Len(calls) :
          calls[i].op = "cancel" /\ calls[i].identifier > 3

\* The region event's place, and the stored schedules it concerns.
GeofenceRun == DispatchCall = "geofenceTask"
EventRegion == IF "region" \in DOMAIN event THEN event.region.identifier ELSE null
Concerned(id) ==
    /\ settings # <<>>
    /\ "region" \in DOMAIN event
    /\ ~event.error
    /\ \E k \in 1..Len(settings.schedules) :
          /\ settings.schedules[k].id = id
          /\ settings.schedules[k].isActive
          /\ settings.schedules[k].locationId = EventRegion
ConcernedSchedules ==
    IF settings = <<>> THEN <<>>
    ELSE SelectSeq(settings.schedules, LAMBDA schedule : Concerned(schedule.id))
OfOthers(registrations) == SelectSeq(registrations, LAMBDA r : ~Concerned(r.scheduleId))
OfConcerned(registrations) == SelectSeq(registrations, LAMBDA r : Concerned(r.scheduleId))

\* C29: during and after a run of the geofence task, the pending
\* registrations of every schedule that is not an active schedule of the
\* event's place are as they were, and every registration or cancellation
\* call concerns an active schedule of that place; a run with an error,
\* without a region, without settings or without such a schedule makes no
\* notifier call; an exit event makes no registration call and, its calls
\* succeeding, leaves no registration of these schedules pending; an enter
\* event, its calls succeeding, leaves exactly the registrations of their
\* quiet-hours-filtered queue pending for them.
C29_RegionEventTouchesItsSchedulesOnly ==
    GeofenceRun =>
        /\ OfOthers(pending) = OfOthers(snapshot)
        /\ \A i \in 1..Len(calls) :
              /\ calls[i].op = "schedule" => Concerned(calls[i].request.scheduleId)
              /\ (calls[i].op = "cancel" /\ calls[i].ok)
                    => \E j \in 1..(i - 1) :
                          /\ calls[j].op = "getAll"
                          /\ calls[j].ok
                          /\ \E r \in 1..Len(calls[j].answer) :
                                /\ calls[j].answer[r].identifier = calls[i].identifier
                                /\ Concerned(calls[j].answer[r].scheduleId)
        /\ (ConcernedSchedules = <<>>) => (calls = <<>> /\ pending = snapshot)
        /\ (ConcernedSchedules # <<>> /\ event.eventType = "Exit")
              => /\ RegistrationCalls = <<>>
                 /\ (pc = "returned" /\ AllCallsOk) => OfConcerned(pending) = <<>>
        /\ (ConcernedSchedules # <<>> /\ event.eventType = "Enter"
                /\ pc = "returned" /\ AllCallsOk)
              => LET expected ==
                         filterQuietHours(
                             buildQueue(ConcernedSchedules, <<>>, clock),
                             settings.quietHours)
                     registered == OfConcerned(pending)
                 IN  /\ Len(registered) = Len(expected)
                     /\ \A i \in 1..Len(expected) :
                           /\ registered[i].scheduleId = expected[i].scheduleId
                           /\ registered[i].date = expected[i].date

\* An enter event for "home" with night quiet hours: the old registrations
\* of s1 and s3 were cancelled and one per schedule registered; those of s2
\* (another place) and s9 (inactive) are still pending.
C29_Witness ==
    /\ GeofenceRun
    /\ pc = "returned"
    /\ AllCallsOk
    /\ "eventType" \in DOMAIN event
    /\ event.eventType = "Enter"
    /\ EventRegion = "home"
    /\ settings # <<>>
    /\ settings.quietHours.enabled
    /\ Len(snapshot) = 5
    /\ Len(OfConcerned(pending)) = 2
    /\ Len(OfOthers(pending)) = 2
    /\ \A i \in 1..Len(pending) : pending[i].identifier \notin {1, 3, 5}

\* C30 (as claimed): once the stored settings are loaded, and after any edits,
\* every schedule of the App has intervalMinutes within [5, 180], a day mask
\* of seven entries, window start and end within [0, 1440) and, when it has
\* a dayOfMonth, one within [1, 31].
C30_FieldsInRange ==
    (pc \in {"refreshAuthorization", "app"}) =>
        \A i \in 1..Len(schedules) :
            /\ schedules[i].intervalMinutes >= 5
            /\ schedules[i].intervalMinutes <= 180
            /\ Len(schedules[i].daysOfWeek) = 7
            /\ schedules[i].startMinutesFromMidnight \in 0..1439
            /\ schedules[i].endMinutesFromMidnight \in 0..1439
            /\ ("dayOfMonth" \in DOMAIN schedules[i]) => schedules[i].dayOfMonth \in 1..31

\* ---- the App: start, stop, removal ----
\* An activation has just returned: the list of activations gets shorter
\* only then, and lastOutcome' tells which one it was.
Returned == Len(passes') < Len(passes)
ActiveIn(shown, id) == findSchedule(shown, id) # <<>> /\ findSchedule(shown, id).isActive
InFlight(id) == \E k \in 1..Len(passes) : passes[k].id = id
Tagged(registrations, id) ==
    { i \in 1..Len(registrations) : registrations[i].scheduleId = id }

\* C22 (as claimed): when the activation of a start or of a re-arm returns
\* after its registration batch failed and was rolled back, with nothing else
\* in flight for the schedule meanwhile, the schedule is not left marked
\* active.
C22_FailedBatchDeactivates ==
    [][ (/\ Returned
         /\ lastOutcome'.kind \in {"start", "rearm"}
         /\ lastOutcome'.outcome = "error"
         /\ lastOutcome'.alone)
            => ~ActiveIn(schedules', lastOutcome'.id) ]_vars

\* C23: when onStopSchedule(id) or removeSchedule(id) returns after its
\* notifier calls succeeded, and nothing else was in flight for id while it
\* ran, then no debounce timer of id is pending, no pending registration is
\* tagged id, and the schedule is inactive (stop) or gone from the list
\* (remove).
StoppedAlone(outcome) ==
    /\ outcome # <<>>
    /\ \/ outcome.kind = "stop" /\ outcome.outcome = "stopped"
       \/ outcome.kind = "remove" /\ outcome.outcome = "removed"
    /\ outcome.alone

C23_StopOrRemoveLeavesNothing ==
    [][ (Returned /\ StoppedAlone(lastOutcome'))
            => /\ lastOutcome'.id \notin DOMAIN timers'
               /\ Tagged(pending', lastOutcome'.id) = {}
               /\ ~ActiveIn(schedules', lastOutcome'.id)
               /\ (lastOutcome'.kind = "remove")
                     => findSchedule(schedules', lastOutcome'.id) = <<>> ]_vars

\* A stop that began with a debounce timer of the schedule pending and with
\* registrations of it has returned.
C23_Witness ==
    /\ StoppedAlone(lastOutcome)
    /\ lastOutcome.kind = "stop"
    /\ budget = 2
    /\ passes = <<>>
    /\ \E i \in 1..Len(schedules) :
          /\ schedules[i].id = lastOutcome.id
          /\ schedules[i].intervalMinutes = 180
          /\ ~schedules[i].isActive
    /\ nextIdentifier = 3
    /\ pending = <<>>

\* C24 (as claimed): once removeSchedule(id) has been invoked, and with every
\* notifier call succeeding, no debounce timer of id fires, no registration
\* tagged id is added, and when nothing is in flight any more no pending
\* registration is tagged id.
TimerFired(id) ==
    /\ id \in DOMAIN timers
    /\ id \notin DOMAIN timers'
    /\ Len(passes') = Len(passes) + 1
    /\ passes'[Len(passes')].kind = "rearm"
    /\ passes'[Len(passes')].id = id

C24_NothingAfterRemoval ==
    [][ \A id \in removedIds :
           (failures' = 0) =>
              /\ ~TimerFired(id)
              /\ Cardinality(Tagged(pending', id)) <= Cardinality(Tagged(pending, id))
              /\ (passes' = <<>> /\ timers' = NoTimers)
                    => Tagged(pending', id) = {} ]_vars

\* ---- the App: edits and quiet-hours changes ----
\* The registrations tagged id, without their identifiers, in the order of
\* their registration.
TaggedRequests(registrations, id) ==
    LET tagged == SelectSeq(registrations, LAMBDA r : r.scheduleId = id)
    IN  [i \in 1..Len(tagged) |->
            [scheduleId |-> tagged[i].scheduleId, date |-> tagged[i].date,
             body |-> tagged[i].body]]

\* One dispatch of a schedule under given quiet hours.
OneDispatch(schedule, quiet) ==
    LET built == filterQuietHours(
                     buildQueue(<<schedule>>,
                                [quietHours |-> quiet,
                                 horizonHours |-> eligibleHorizonHours(schedule)],
                                clock),
                     quiet)
    IN  [i \in 1..Len(built) |-> notificationRequest(built[i])]

Settled == passes = <<>> /\ timers = NoTimers

\* C25 (as claimed): after edits of an armed schedule and quiet-hours
\* changes, once every timer has fired and every activation has returned
\* (the last of them without another one for the schedule overlapping it),
\* the pending registrations tagged with the schedule's id are those of one
\* dispatch of its latest values under the quiet hours in force.
C25_SettledToLatestValues ==
    (/\ Settled
     /\ lastOutcome # <<>>
     /\ lastOutcome.alone
     /\ ActiveIn(schedules, lastOutcome.id))
        => TaggedRequests(pending, lastOutcome.id)
              = OneDispatch(findSchedule(schedules, lastOutcome.id), quietHours)

\* C28: a pending debounce timer carries the latest values of its schedule,
\* which is active; a step that sets or replaces the timer of an id is an
\* edit of that schedule, and it leaves the timers of the other ids as they
\* were; a timer that fires starts exactly one activation, with the values
\* of the last edit.  (One timer per id at most: timers is a map by id.)
TimerSet(id) ==
    /\ id \in DOMAIN timers'
    /\ (id \in DOMAIN timers) => timers'[id] # timers[id]

C28_OneTimerPerIdWithLastEdit ==
    [][ /\ \A id \in DOMAIN timers' :
              /\ timers'[id].schedule = findSchedule(schedules', id)
              /\ timers'[id].schedule.isActive
        /\ \A id \in AppIds :
              TimerSet(id) =>
                 /\ hasChanged(findSchedule(schedules', id), findSchedule(schedules, id))
                 /\ \A other \in DOMAIN timers \ {id} :
                       other \in DOMAIN timers' /\ timers'[other] = timers[other]
        /\ \A id \in DOMAIN timers :
              (id \notin DOMAIN timers') =>
                 /\ Len(passes') = Len(passes) + 1
                 /\ passes'[Len(passes')].kind = "rearm"
                 /\ passes'[Len(passes')].schedule = findSchedule(schedules, id)
                 /\ \A k \in 1..Len(passes) : passes'[k] = passes[k] \/ passes'[k].id = id
        /\ \A id \in AppIds :
              (/\ ActiveIn(schedules, id)
               /\ ActiveIn(schedules', id)
               /\ hasChanged(findSchedule(schedules', id), findSchedule(schedules, id)))
                 => TimerSet(id) ]_vars

\* Two saved edits of s1 (interval and message) with no timer fired between
\* them: one timer is pending, no activation was started.
C28_Witness ==
    /\ budget = 2
    /\ DOMAIN timers = {"s1"}
    /\ timers["s1"].schedule.intervalMinutes = 180
    /\ timers["s1"].schedule.message = "stretch"
    /\ passes = <<>>
    /\ lastOutcome = <<>>

\* ---- the App with location gating ----
\* The device is at the saved place of the activation's schedule, within the
\* radius, as far as the activation has read.
AtItsPlace(pass) ==
    \E i \in 1..Len(settings.locations) :
        /\ settings.locations[i].id = pass.schedule.locationId
        /\ pass.coords # <<>>
        /\ pass.coords.position - settings.locations[i].position
              \in (0 - settings.locationRadiusMeters)..settings.locationRadiusMeters

LocationGated(pass) == IsGated(pass) /\ pass.schedule.locationId # null

\* C26: an activation for a location-gated schedule registers only when the
\* saved place exists, the permission was granted and the position read is
\* within the radius; otherwise scheduleIfEligible returns the skipped
\* outcome (no error), nothing tagged with the schedule is pending, and the
\* schedule is still active after the start or re-arm returned.
C26_IneligibleIsSkippedAndStaysActive ==
    [][ /\ \A k \in 1..Len(passes') :
              (/\ LocationGated(passes'[k])
               /\ passes'[k].pc \in {"register", "cleanupGetAll", "cleanupCancel"})
                 => AtItsPlace(passes'[k])
        /\ (Returned /\ LocationGated(passes[1])) =>
              /\ (lastOutcome'.outcome \in {"scheduled", "error"}) => AtItsPlace(passes[1])
              /\ (passes[1].pc = "permissions" /\ failures' = failures)
                    => lastOutcome'.outcome = "skipped"
              /\ (passes[1].pc = "coords")
                    => lastOutcome'.outcome \in {"skipped", "empty"}
              /\ (/\ passes[1].pc \in {"getAll", "cancel"}
                  /\ failures' = failures
                  /\ getLocationTarget(settings.locations,
                                       passes[1].schedule.locationId) = <<>>)
                    => lastOutcome'.outcome = "skipped"
              /\ (lastOutcome'.outcome = "skipped") =>
                    /\ Tagged(pending', lastOutcome'.id) = {}
                    /\ nextIdentifier' = nextIdentifier
                    /\ Range(pending') \subseteq Range(pending)
                    /\ ActiveIn(schedules', lastOutcome'.id) ]_vars

\* A start of a schedule gated to a saved place returned skipped after the
\* earlier registrations of the schedule were cancelled.
C26_Witness ==
    /\ lastOutcome # <<>>
    /\ lastOutcome.kind = "start"
    /\ lastOutcome.outcome = "skipped"
    /\ settings.locations # <<>>
    /\ schedules[1].locationId = "home"
    /\ schedules[1].isActive
    /\ nextIdentifier = 3
    /\ pending = <<>>
    /\ passes = <<>>

\* ------------------------------------------------------------------------
\* Inputs out of range
\* ------------------------------------------------------------------------
\* The input of the call with its interval and window replaced by the values
\* the contract says they stand for.
InputAsRead ==
    [input EXCEPT !.intervalMinutes = Step,
                  !.startMinutesFromMidnight = WindowStartMin,
                  !.endMinutesFromMidnight = WindowEndMin]

OutOfRange ==
    \/ ~Finite(input.intervalMinutes)
    \/ input.intervalMinutes < MIN_INTERVAL
    \/ input.intervalMinutes > MAX_INTERVAL
    \/ \E v \in {input.startMinutesFromMidnight, input.endMinutesFromMidnight} :
          ~Finite(v) \/ v < 0 \/ v >= MinutesPerDay

\* C31: generateFireDates returns for an interval below 5 or not finite what
\* it returns for 5, for an interval above 180 what it returns for 180, for
\* window minutes outside [0, 1440) what it returns for their value modulo
\* 1440 and for window minutes that are not finite what it returns for 0;
\* every such input is answered with a list of instants.
C31_OutOfRangeInputsAsClamped ==
    Expanded =>
        /\ dates = generateFireDates(InputAsRead)
        /\ \A i \in 1..Len(dates) : dates[i] \in Nat /\ dates[i] > input.now

\* An interval that is not a number over a window given as -180..1800 was
\* expanded in steps of five minutes.
C31_Witness ==
    /\ Expanded
    /\ input.intervalMinutes = NaN
    /\ input.startMinutesFromMidnight < 0
    /\ Len(dates) >= 2
    /\ dates[2] - dates[1] = MIN_INTERVAL * SecondsPerMinute

\* ---- the App: quiescent states ----
\* C32 (as claimed): when no debounce timer is pending and no activation is in
\* flight, and with every notifier call having succeeded, a schedule that is
\* inactive or was removed has no pending registration tagged with its id.
C32_QuiescentInactiveHasNothing ==
    (Settled /\ failures = 0) =>
        \A id \in AppIds :
            (id \in removedIds \/ ~ActiveIn(schedules, id)) => Tagged(pending, id) = {}

\* C33 (as claimed): once every activation has returned and no timer is
\* pending, with every notifier call having succeeded, the pending
\* registrations tagged with one schedule id have pairwise different fire
\* times and are at most maxCount (50).
C33_OverlappingPassesLeaveOneSet ==
    (Settled /\ failures = 0) =>
        \A id \in AppIds :
            /\ \A i, j \in Tagged(pending, id) :
                   pending[i].date = pending[j].date => i = j
            /\ Cardinality(Tagged(pending, id)) <= DEFAULT_MAX_COUNT

\* ---- the queue against the uncapped expansions ----
\* Calls of buildQueue with a cap of at least one over a horizon of whole
\* days, short enough for the uncapped expansions to be enumerated.
CapOptions ==
    { [maxCount |-> k, horizonHours |-> 24 * d] :
        k \in 1..MaxCountBound, d \in 1..MaxHorizonDays }

InitCap ==
    /\ dates = <<>>
    /\ walk = <<>>
    /\ filtered = <<>>
    /\ DispatchIdle
    /\ SingleCall
    /\ NoApp
    /\ pc = "buildQueue"
    /\ input = <<>>
    /\ targetSchedules \in ScheduleLists(MaxSchedules)
    /\ options \in CapOptions
    /\ clock \in QueueClocks
    /\ queue = <<>>

NextCap == BuildQueue

SpecCap == InitCap /\ [][NextCap]_vars

\* The expansion of the i-th schedule of the queue call without a cap.
UncappedExpansion(i) ==
    generateFireDates(
        [now |-> clock,
         intervalMinutes |-> targetSchedules[i].intervalMinutes,
         startMinutesFromMidnight |-> targetSchedules[i].startMinutesFromMidnight,
         endMinutesFromMidnight |-> targetSchedules[i].endMinutesFromMidnight,
         daysOfWeek |-> targetSchedules[i].daysOfWeek,
         maxCount |-> NoCap,
         horizonHours |-> (QueueHorizonEnd - clock) \div SecondsPerHour])

\* The union of the uncapped expansions, as pairs <<fire time, position of the
\* schedule in the input>>.
UncappedUnion ==
    LET expansion == [i \in 1..Len(targetSchedules) |-> UncappedExpansion(i)]
    IN  UNION { { <<expansion[i][k], i>> : k \in 1..Len(expansion[i]) } :
                    i \in 1..Len(targetSchedules) }

Earlier(p, q) == p[1] < q[1] \/ (p[1] = q[1] /\ p[2] <= q[2])

\* The first k pairs of a set of pairs in the order of time (input order
\* among equal times), as queue entries.
RECURSIVE FirstByTime(_, _)
FirstByTime(pairs, k) ==
    IF k = 0 \/ pairs = {} THEN <<>>
    ELSE LET first == CHOOSE p \in pairs : \A q \in pairs : Earlier(p, q)
         IN  << [scheduleId |-> targetSchedules[first[2]].id,
                 date |-> first[1],
                 message |-> targetSchedules[first[2]].message] >>
             \o FirstByTime(pairs \ {first}, k - 1)

\* C34: for maxCount >= 1 the queue of buildNotificationQueue, built from
\* expansions capped at maxCount each, is the first maxCount entries of the
\* time-sorted union of the uncapped expansions over the horizon.
C34_PerScheduleCapLosesNothing ==
    (Queued /\ QueueCap >= 1) =>
        LET union == UncappedUnion
        IN  queue = FirstByTime(union, QueueCap)

\* Two schedules, one of them with more instants within the horizon than the
\* cap, both present in the queue.
C34_Witness ==
    /\ Queued
    /\ QueueCap >= 1
    /\ Len(targetSchedules) = 2
    /\ Len(UncappedExpansion(1)) > QueueCap
    /\ Len(queue) = QueueCap
    /\ \A i \in 1..2 : \E k \in 1..Len(queue) : queue[k].scheduleId = targetSchedules[i].id

\* ---- the empty outcome against the eligible instants ----
BatchHorizonHours ==
    IF "horizonHours" \in DOMAIN options THEN options.horizonHours ELSE QUEUE_HORIZON_HOURS

\* The instants of the i-th schedule of the batch within the horizon, however
\* many they are.
InstantsWithinHorizon(i) ==
    generateFireDates(
        [now |-> clock,
         intervalMinutes |-> targetSchedules[i].intervalMinutes,
         startMinutesFromMidnight |-> targetSchedules[i].startMinutesFromMidnight,
         endMinutesFromMidnight |-> targetSchedules[i].endMinutesFromMidnight,
         daysOfWeek |-> targetSchedules[i].daysOfWeek,
         maxCount |-> BatchHorizonHours * 60 + 1,
         horizonHours |-> BatchHorizonHours])

\* The instant t lies outside the quiet hours of the call.
OutsideQuietHours(t) ==
    \/ ~QuietGiven
    \/ ~options.quietHours.enabled
    \/ QuietStart = QuietEnd
    \/ ~InQuietSpan(MinuteOfDay(t))

EligibleInstants(i) == { t \in Range(InstantsWithinHorizon(i)) : OutsideQuietHours(t) }

\* C35 (as claimed): scheduleBatch called for one schedule returns the empty
\* outcome (count 0, no error) only if no instant of the schedule within the
\* horizon lies outside the quiet hours; when some instant does, a
\* registration call is made.
C35_EmptyOnlyWithoutEligibleInstant ==
    (BatchReturned /\ Len(targetSchedules) = 1 /\ QueueCap >= 1) =>
        /\ (result = [count |-> 0]) => EligibleInstants(1) = {}
        /\ (calls = <<>>) => EligibleInstants(1) = {}

\* C36 (as claimed): when scheduleBatch has returned for a batch with every
\* notifier call succeeding, every schedule of the batch with an instant
\* within the horizon outside the quiet hours has had a registration made
\* for it, and that registration is pending.
C36_EverySchedulePresent ==
    (BatchReturned /\ AllCallsOk /\ QueueCap >= 1) =>
        \A i \in 1..Len(targetSchedules) :
            EligibleInstants(i) # {} =>
                /\ \E c \in 1..Len(calls) :
                       /\ calls[c].op = "schedule"
                       /\ calls[c].request.scheduleId = targetSchedules[i].id
                /\ \E r \in 1..Len(pending) :
                       /\ pending[r].scheduleId = targetSchedules[i].id
                       /\ pending[r].identifier >= Len(pending) - Len(calls) + 1

\* ------------------------------------------------------------------------
\* generateFireDates, one loop iteration at a time: the primary walk (the
\* while loop of lines 97-131) and the loop of generateFallbackDates.
\* ------------------------------------------------------------------------
\* ScheduleInput objects of a Monday, without maxCount (50) or with the
\* largest cap, for every window and the intervals 3 (read as 5), 60, 200
\* (read as 180) and the ones that are not finite.
WalkInputs ==
    { b \in ScheduleInputs :
        /\ "maxCount" \in DOMAIN b => b.maxCount = MaxCountBound
        /\ b.now < SecondsPerDay
        /\ b.daysOfWeek \in {AllDays, TueOnly, NoDays}
        /\ b.intervalMinutes \notin {30, 100} }

InitWalk ==
    /\ dates = <<>>
    /\ walk = <<>>
    /\ filtered = <<>>
    /\ DispatchIdle
    /\ SingleCall
    /\ NoApp
    /\ pc = "generateFireDates"
    /\ input \in WalkInputs
    /\ targetSchedules = <<>>
    /\ options = <<>>
    /\ clock = 0
    /\ queue = <<>>

walkUnchanged ==
    /\ UNCHANGED <<input, targetSchedules, options, clock, queue, filtered>>
    /\ UNCHANGED dispatchVars
    /\ UNCHANGED callerVars
    /\ UNCHANGED appVars

\* Up to the first test of the loop condition: the early return for a mask
\* without an active day, or `results = []` and `cursor = new Date(now)`.
BeginWalk ==
    /\ pc = "generateFireDates"
    /\ LET c == walkContext(input)
       IN  IF ~someDayActive(c.activeDays)
           THEN /\ dates' = <<>>
                /\ walk' = walk
                /\ pc' = "expanded"
           ELSE /\ dates' = dates
                /\ walk' = [cursor |-> c.now, results |-> <<>>, stop |-> FALSE]
                /\ pc' = "primaryWalk"
    /\ walkUnchanged

\* The loop condition held: one iteration of the primary walk.
PrimaryIteration ==
    /\ pc = "primaryWalk"
    /\ primaryContinues(walk, walkContext(input))
    /\ walk' = primaryBody(walk, walkContext(input))
    /\ UNCHANGED <<pc, dates>>
    /\ walkUnchanged

\* The primary walk is left: its results are returned, or with none the
\* fallback loop is entered at now + interval with the seconds cleared.
PrimaryEnds ==
    /\ pc = "primaryWalk"
    /\ ~primaryContinues(walk, walkContext(input))
    /\ IF Len(walk.results) = 0
       THEN /\ walk' = [cursor |-> fallbackStart(input.now, walkContext(input).interval),
                        results |-> <<>>]
            /\ dates' = dates
            /\ pc' = "fallbackWalk"
       ELSE /\ dates' = walk.results
            /\ walk' = <<>>
            /\ pc' = "expanded"
    /\ walkUnchanged

\* One iteration of the loop of generateFallbackDates.
FallbackIteration ==
    /\ pc = "fallbackWalk"
    /\ fallbackContinues(walk, walkContext(input))
    /\ walk' = fallbackBody(walk, walkContext(input))
    /\ UNCHANGED <<pc, dates>>
    /\ walkUnchanged

\* The fallback loop is left and its results are returned.
FallbackEnds ==
    /\ pc = "fallbackWalk"
    /\ ~fallbackContinues(walk, walkContext(input))
    /\ dates' = walk.results
    /\ walk' = <<>>
    /\ pc' = "expanded"
    /\ walkUnchanged

NextWalk ==
    \/ BeginWalk
    \/ PrimaryIteration
    \/ PrimaryEnds
    \/ FallbackIteration
    \/ FallbackEnds

SpecWalk == InitWalk /\ [][NextWalk]_vars

\* ---- termination of the expansion ----
InPrimaryWalk == pc = "primaryWalk"
InFallbackWalk == pc = "fallbackWalk"

\* An iteration of the primary walk: it took a `break` (the next candidate or
\* window start lies beyond the horizon), or the cursor moved forward, by at
\* least the interval when the window is the whole day, to one minute after
\* the end of a window occurrence that ended after the old cursor otherwise.
PrimaryAdvances ==
    (InPrimaryWalk /\ pc' = "primaryWalk") =>
        \/ walk'.stop /\ walk'.cursor = walk.cursor /\ walk'.results = walk.results
        \/ /\ ~walk'.stop
           /\ IF WindowStartMin = WindowEndMin
              THEN walk'.cursor >= walk.cursor + Step * SecondsPerMinute
              ELSE /\ walk'.cursor - SecondsPerMinute > walk.cursor
                   /\ (walk'.cursor % SecondsPerDay)
                          = ((WindowEndMin + 1) % MinutesPerDay) * SecondsPerMinute

\* An iteration of the fallback loop moves the cursor by the interval.
FallbackAdvances ==
    (InFallbackWalk /\ pc' = "fallbackWalk") =>
        walk'.cursor = walk.cursor + Step * SecondsPerMinute

\* A loop is left only with maxCount instants collected, the horizon passed
\* or, in the primary walk, a `break` taken.
LeftWhenDone ==
    /\ (InPrimaryWalk /\ pc' # "primaryWalk") =>
          (walk.stop \/ Len(walk.results) >= Cap \/ walk.cursor > HorizonEnd)
    /\ (InFallbackWalk /\ pc' # "fallbackWalk") =>
          (Len(walk.results) >= Cap \/ walk.cursor > HorizonEnd)

\* A step of the walk that changes the state can be taken (ENABLED
\* <<NextWalk>>_vars, written out): the call is about to begin, a loop is
\* about to be left, or its next iteration changes the locals.
WalkCanStep ==
    \/ pc = "generateFireDates"
    \/ /\ InPrimaryWalk
       /\ primaryContinues(walk, walkContext(input))
             => primaryBody(walk, walkContext(input)) # walk
    \/ /\ InFallbackWalk
       /\ fallbackContinues(walk, walkContext(input))
             => fallbackBody(walk, walkContext(input)) # walk

\* C37: generateFireDates terminates: every iteration of the primary walk
\* moves the cursor forward (by at least the clamped interval in the all-day
\* branch, past the end of the current window otherwise), every iteration of
\* the fallback loop moves it by the interval, a loop is left once maxCount
\* instants are collected or the horizon is passed, and until the call has
\* returned a step that changes its state can be taken.
C37_ExpansionTerminates ==
    /\ [][PrimaryAdvances /\ FallbackAdvances /\ LeftWhenDone]_vars
    /\ [](pc = "expanded" \/ WalkCanStep)

\* The call returned what the primary walk collected over two windows.
C37_Witness ==
    /\ pc = "expanded"
    /\ WindowStartMin # WindowEndMin
    /\ Len(dates) >= 2
    /\ dates[Len(dates)] - dates[1] > SecondsPerDay \div 2
    /\ dates = generateFireDates(input)

\* ------------------------------------------------------------------------
\* The App with location gating: its schedules and its saved places, from
\* mount on (the hydrate effect, the Locations tab, the location picker,
\* the schedule menu)
\* ------------------------------------------------------------------------
\* A stored schedule of an older version: a locationFilter and no locationId.
Legacy(id, locationFilter) ==
    withField([LateEvening(id) EXCEPT !.isActive = FALSE], "locationFilter", locationFilter)

StoredScheduleLists ==
    { <<>>,
      << Stored("s1", "home", FALSE) >>,
      << Stored("s1", "gym", FALSE) >>,
      << Stored("s1", null, FALSE), Legacy("s2", "home") >>,
      << Legacy("s1", "anywhere"), Legacy("s2", "work") >>,
      << Stored("s1", "home", FALSE), Stored("s2", "work", FALSE) >> }

\* Stored places; the second list has an entry without coordinates.
StoredPlaceLists ==
    { <<>>,
      << Place("home", 0) >>,
      << Place("home", 0), [id |-> "gym", name |-> "gym"] >> }

\* The settings item: none, or schedules with or without places and with or
\* without the legacy home and work coordinates.
PlaceItems ==
    { <<>> } \cup
    { [f \in {"schedules", "locations"} \cup legacy |->
          CASE f = "schedules" -> list
            [] f = "locations" -> places
            [] OTHER -> 100] :
        list \in StoredScheduleLists, places \in StoredPlaceLists,
        legacy \in SUBSET {"homeLocation", "workLocation"} }

PlacePositions == { 0, 100 }

\* The ids made from Date.now() and Math.random(): one per user event.
freshId(kind, count) == kind \o ToString(count + 1)

\* The state of AppContent at mount: DEFAULT_SETTINGS.schedules (one
\* inactive schedule bound to no place), no places, nothing hydrated.
InitPlaces ==
    /\ input = <<>>
    /\ dates = <<>>
    /\ walk = <<>>
    /\ filtered = <<>>
    /\ queue = <<>>
    /\ targetSchedules = <<>>
    /\ options = <<>>
    /\ clock = 0
    /\ DispatchIdle
    /\ quietHours = DEFAULT_QUIET_HOURS
    /\ pending = <<>>
    /\ nextIdentifier = 1
    /\ repeat = 1
    /\ snapshot = <<>>
    /\ event = <<>>
    /\ pc = "hydrate"
    /\ schedules = << [Gated("s0", null) EXCEPT !.isActive = FALSE] >>
    /\ settings = [locations |-> <<>>,
                   locationRadiusMeters |-> DEFAULT_LOCATION_RADIUS_METERS]
    /\ storage \in PlaceItems
    /\ isHydrated = FALSE
    /\ sheet = <<>>
    /\ draftSchedule = <<>>
    /\ detailMode = "null"
    /\ authorizationStatus = "unknown"
    /\ previousSchedules = <<>>
    /\ timers = NoTimers
    /\ passes = <<>>
    /\ budget = 0
    /\ failures = 0
    /\ removedIds = {}
    /\ edits = 0
    /\ lastOutcome = <<>>

placesUnchanged ==
    UNCHANGED <<input, dates, walk, filtered, queue, targetSchedules, options, clock,
                entry, pending, nextIdentifier, scheduled, error, tasks, calls, result,
                repeat, snapshot, event, draftSchedule, detailMode, previousSchedules,
                timers, passes, failures, removedIds, edits, lastOutcome>>

\* The save effect of the render that follows: once hydrated, the schedules
\* and places are written to the settings item.
savePlaces ==
    storage' = IF isHydrated'
               THEN [schedules |-> schedules', locations |-> settings'.locations,
                     quietHours |-> quietHours']
               ELSE storage

\* The hydrate effect after `await loadSettings()`: a non-empty stored list
\* replaces the schedules; the places, the quiet hours and the radius are
\* replaced in any case.
HydratePlaces ==
    /\ pc = "hydrate"
    /\ LET stored == loadSettings(storage)
       IN  /\ schedules' =
                 IF stored # <<>> /\ Len(stored.schedules) > 0
                 THEN [i \in 1..Len(stored.schedules) |->
                          [stored.schedules[i] EXCEPT
                              !.message = IF @ = DEFAULT_MESSAGE THEN "" ELSE @]]
                 ELSE schedules
           /\ settings' = [locations |-> IF stored # <<>> THEN stored.locations ELSE <<>>,
                           locationRadiusMeters |-> DEFAULT_LOCATION_RADIUS_METERS]
           /\ quietHours' = IF stored # <<>> THEN stored.quietHours ELSE DEFAULT_QUIET_HOURS
    /\ pc' = "refreshAuthorization"
    /\ UNCHANGED <<isHydrated, authorizationStatus, sheet, budget>>
    /\ savePlaces
    /\ placesUnchanged

\* refreshAuthorization() resolved and setIsHydrated(true); no schedule is
\* active, so that the effects have nothing to arm.
PlacesHydrated(status) ==
    /\ pc = "refreshAuthorization"
    /\ authorizationStatus' = status
    /\ isHydrated' = TRUE
    /\ pc' = "app"
    /\ UNCHANGED <<schedules, settings, quietHours, sheet, budget>>
    /\ savePlaces
    /\ placesUnchanged

\* An event of the user outside the action sheet, which is modal.
PlaceEvent ==
    /\ UserEvent
    /\ sheet = <<>>
    /\ UNCHANGED <<pc, isHydrated, authorizationStatus, quietHours>>
    /\ placesUnchanged

\* saveLocationFromCoords(name, coords, locationId) after the address
\* resolved: the place `locationId` gets the coordinates, or without one a
\* new place is appended.
SaveLocationFromCoords(name, position, locationId) ==
    /\ Mounted
    /\ budget < MaxEvents
    /\ budget' = budget + 1
    /\ settings' =
          [settings EXCEPT !.locations =
              IF locationId # null
              THEN [j \in 1..Len(@) |->
                       IF @[j].id = locationId THEN [@[j] EXCEPT !.position = position]
                       ELSE @[j]]
              ELSE Append(@, [id |-> freshId("place", budget), name |-> name,
                              position |-> position])]
    /\ UNCHANGED <<schedules, sheet, pc, isHydrated, authorizationStatus, quietHours>>
    /\ savePlaces
    /\ placesUnchanged

\* openLocationPicker(schedule): the sheet's callback closes over the
\* schedule and over the places of this render.
OpenLocationPicker(i) ==
    /\ Mounted
    /\ sheet = <<>>
    /\ i \in 1..Len(schedules)
    /\ sheet' = [scheduleId |-> schedules[i].id, locations |-> settings.locations]
    /\ UNCHANGED <<schedules, settings, storage, budget, pc, isHydrated,
                   authorizationStatus, quietHours>>
    /\ placesUnchanged

\* updateSchedule(id, { locationId }).
updateSchedule(list, id, locationId) ==
    [i \in 1..Len(list) |->
        IF list[i].id = id THEN [list[i] EXCEPT !.locationId = locationId] ELSE list[i]]

\* The sheet's callback: button 0 is 'Anywhere', then one button per place,
\* then 'Manage locations' and 'Cancel', which leave the schedules alone.
LocationPicked(buttonIndex) ==
    /\ sheet # <<>>
    /\ buttonIndex \in 0..(Len(sheet.locations) + 1)
    /\ schedules' =
          IF buttonIndex = 0
          THEN updateSchedule(schedules, sheet.scheduleId, null)
          ELSE IF buttonIndex <= Len(sheet.locations)
          THEN updateSchedule(schedules, sheet.scheduleId, sheet.locations[buttonIndex].id)
          ELSE schedules
    /\ sheet' = <<>>
    /\ UNCHANGED <<settings, budget, pc, isHydrated, authorizationStatus, quietHours>>
    /\ savePlaces
    /\ placesUnchanged

\* 'Remove' of the location menu, removeLocation(location): the place leaves
\* the list and every schedule bound to it is bound to none.
RemoveLocation(j) ==
    /\ PlaceEvent
    /\ j \in 1..Len(settings.locations)
    /\ LET location == settings.locations[j]
       IN  /\ settings' = [settings EXCEPT !.locations =
                              SelectSeq(@, LAMBDA item : item.id # location.id)]
           /\ schedules' = [i \in 1..Len(schedules) |->
                               IF schedules[i].locationId = location.id
                               THEN [schedules[i] EXCEPT !.locationId = null]
                               ELSE schedules[i]]
    /\ UNCHANGED sheet
    /\ savePlaces

\* 'Duplicate' of the schedule menu, duplicateSchedule(schedule): a copy with
\* a new id, inactive, is appended.
DuplicateSchedule(i) ==
    /\ PlaceEvent
    /\ i \in 1..Len(schedules)
    /\ schedules' = Append(schedules,
                           [schedules[i] EXCEPT !.id = freshId("copy", budget),
                                                !.isActive = FALSE])
    /\ UNCHANGED <<settings, sheet>>
    /\ savePlaces

NextPlaces ==
    \/ HydratePlaces
    \/ \E status \in {"authorized", "denied"} : PlacesHydrated(status)
    \/ \E position \in PlacePositions :
          \E locationId \in {null} \cup { settings.locations[j].id :
                                            j \in 1..Len(settings.locations) } :
             /\ sheet = <<>>
             /\ SaveLocationFromCoords("gym", position, locationId)
    \/ \E i \in 1..Len(schedules) : OpenLocationPicker(i)
    \/ /\ sheet # <<>>
       /\ \E buttonIndex \in 0..(Len(sheet.locations) + 1) : LocationPicked(buttonIndex)
    \/ \E j \in 1..Len(settings.locations) : RemoveLocation(j)
    \/ \E i \in 1..Len(schedules) : DuplicateSchedule(i)

SpecPlaces == InitPlaces /\ [][NextPlaces]_vars

\* The ids of the saved places.
SavedPlaceIds == { settings.locations[j].id : j \in 1..Len(settings.locations) }

Dangling(schedule) ==
    schedule.locationId # null /\ schedule.locationId \notin SavedPlaceIds

\* C38: in every reachable state each schedule's locationId is null or the id
\* of a currently saved place.
C38_NoDanglingLocation ==
    \A i \in 1..Len(schedules) : ~Dangling(schedules[i])

====
